---- MODULE Spec2Model ----
(***************************************************************************)
(* A model of the masque-vpn data plane: the IP address pool               *)
(* (common.IPPool), the server's session table and session lifecycle       *)
(* (vpn_server/internal/server), the XOR FEC codec (common/fec) and the    *)
(* two packet pumps (common/proxy.go).                                     *)
(*                                                                         *)
(* The repository carries two server handlers for the same Server type:    *)
(* the /vpn handler of Server.Run with its handleClientConnection          *)
(* (server.go), and handleMASQUERequest with cleanupClientSession          *)
(* (masque_handler.go).  A server runs one of them; the variable `build`   *)
(* is fixed by Init and says which.                                        *)
(***************************************************************************)
EXTENDS Integers, Sequences, FiniteSets, TLC

(***************************************************************************)
(* Bounds of the model.                                                    *)
(***************************************************************************)
\* Number of connections the server accepts in one behaviour.
MaxSessions == 2
\* Longest batch handed to the codec.
MaxBatchLen == 4
\* Most packets the sender's TUN delivers in one behaviour.
MaxPackets == 11
\* Most packets one read of the sender's TUN returns.
MaxRead == 10

(***************************************************************************)
(* Addresses and prefixes.  A netip.Addr is its big-endian byte slice, a   *)
(* netip.Prefix an address and a number of bits.                           *)
(***************************************************************************)
Pow2(n) == 2 ^ n

\* The number of host (zero) bits of byte i (1-based) of net.CIDRMask(bits, 8 * n).
HostBits(bits, i) ==
  LET nb == bits - 8 * (i - 1)
  IN  IF nb >= 8 THEN 0 ELSE IF nb <= 0 THEN 8 ELSE 8 - nb

\* netip.Prefix.Masked: the host bits cleared.
Masked(prefix) ==
  [addr |-> [i \in 1..Len(prefix.addr) |->
               prefix.addr[i] - (prefix.addr[i] % Pow2(HostBits(prefix.bits, i)))],
   bits |-> prefix.bits]

\* LastIP: every host bit set (ipv4[i] |= ^mask[i]).
LastIP(prefix) ==
  [i \in 1..Len(prefix.addr) |->
     LET h == Pow2(HostBits(prefix.bits, i))
     IN  prefix.addr[i] - (prefix.addr[i] % h) + h - 1]

\* nextIP: add one to the lowest byte, carrying into the next while a byte wraps to 0.
RECURSIVE nextIPFrom(_, _)
nextIPFrom(bytes, i) ==
  IF i = 0 THEN bytes
  ELSE LET b == (bytes[i] + 1) % 256
       IN  IF b # 0 THEN [bytes EXCEPT ![i] = b]
           ELSE nextIPFrom([bytes EXCEPT ![i] = b], i - 1)

nextIP(ip) == nextIPFrom(ip, Len(ip))

\* netip.Addr.Compare on addresses of one family: -1, 0 or 1, bytewise from the top.
RECURSIVE CompareFrom(_, _, _)
CompareFrom(a, b, i) ==
  IF i > Len(a) THEN 0
  ELSE IF a[i] < b[i] THEN -1
  ELSE IF a[i] > b[i] THEN 1
  ELSE CompareFrom(a, b, i + 1)

Compare(a, b) == CompareFrom(a, b, 1)

\* netip.Prefix.Contains.
Contains(prefix, ip) ==
  Masked([addr |-> ip, bits |-> prefix.bits]).addr = Masked(prefix).addr

\* NewNetworkInfo: the masked prefix, and the gateway, its first address.
NewNetworkInfo(cidr) ==
  LET networkPrefix == Masked(cidr)
  IN  [prefix |-> networkPrefix, gateway |-> nextIP(networkPrefix.addr)]

(***************************************************************************)
(* IPPool.                                                                 *)
(***************************************************************************)
\* The loop of NewIPPool without its gateway test.
RECURSIVE PoolRange_KeepGateway(_, _, _, _)
PoolRange_KeepGateway(ip, end, prefix, gateway) ==
  IF Compare(ip, end) > 0 THEN <<>>
  ELSE (IF ip = prefix.addr THEN <<>> ELSE <<ip>>)
       \o (IF ip = end THEN <<>> ELSE PoolRange_KeepGateway(nextIP(ip), end, prefix, gateway))

\* The loop of NewIPPool: from ip up to end, skipping the gateway and the network address.
RECURSIVE PoolRange(_, _, _, _)
PoolRange(ip, end, prefix, gateway) ==
  IF Compare(ip, end) > 0 THEN <<>>
  ELSE (IF ip = gateway \/ ip = prefix.addr THEN <<>> ELSE <<ip>>)
       \o (IF ip = end THEN <<>> ELSE PoolRange(nextIP(ip), end, prefix, gateway))

\* A Go map as a function on its key set.
MapPut(m, k, v) == [x \in (DOMAIN m) \cup {k} |-> IF x = k THEN v ELSE m[x]]
MapDelete(m, k) == [x \in (DOMAIN m) \ {k} |-> m[x]]
EmptyMap == [x \in {} |-> 0]

NewIPPool(prefix, gateway) ==
  [prefix    |-> prefix,
   gateway   |-> gateway,
   allocated |-> EmptyMap,
   available |-> PoolRange(nextIP(prefix.addr), LastIP(prefix), prefix, gateway)]

\* Allocate failing one address early: it keeps the last free address back.
Allocate_KeepLast(p, clientID) ==
  IF Len(p.available) <= 1
  THEN [ok |-> FALSE, ip |-> <<>>, pool |-> p]
  ELSE [ok   |-> TRUE,
        ip   |-> p.available[1],
        pool |-> [p EXCEPT !.available = Tail(p.available),
                           !.allocated = MapPut(p.allocated, p.available[1], clientID)]]

\* IPPool.Allocate: the head of the free list, or an error when it is empty.
Allocate(p, clientID) ==
  IF Len(p.available) = 0
  THEN [ok |-> FALSE, ip |-> <<>>, pool |-> p]
  ELSE LET ip == p.available[1]
       IN  [ok   |-> TRUE,
            ip   |-> ip,
            pool |-> [p EXCEPT !.available = Tail(p.available),
                               !.allocated = MapPut(p.allocated, ip, clientID)]]

\* Release without its membership test: whatever is released joins the free list.
Release_Unchecked(p, ip) ==
  [p EXCEPT !.allocated = MapDelete(p.allocated, ip),
            !.available = Append(p.available, ip)]

\* IPPool.Release: an allocated address goes to the tail of the free list; anything else is ignored.
Release(p, ip) ==
  IF ip \in DOMAIN p.allocated
  THEN [p EXCEPT !.allocated = MapDelete(p.allocated, ip),
                 !.available = Append(p.available, ip)]
  ELSE p

\* IPPool.Stats: (total, allocated, available).
Stats(p) ==
  [total     |-> Len(p.available) + Cardinality(DOMAIN p.allocated),
   allocated |-> Cardinality(DOMAIN p.allocated),
   available |-> Len(p.available)]

(***************************************************************************)
(* The XOR FEC codec (common/fec).  A packet is its sequence of bytes; a    *)
(* nil slice is Nil, which is no sequence of bytes and has length 0.        *)
(***************************************************************************)
Nil == <<-1>>

\* len() of a packet.
PLen(pkt) == IF pkt = Nil THEN 0 ELSE Len(pkt)

\* a ^ b on bytes, bit by bit.
RECURSIVE BXorBits(_, _, _)
BXorBits(a, b, n) ==
  IF n = 0 THEN 0
  ELSE (((a % 2) + (b % 2)) % 2) + (2 * BXorBits(a \div 2, b \div 2, n - 1))

BXor(a, b) == BXorBits(a, b, 8)

Min(a, b) == IF a < b THEN a ELSE b

\* The largest len() among the packets, and at least floor.
RECURSIVE MaxLenFrom(_, _, _)
MaxLenFrom(packets, i, floor) ==
  IF i > Len(packets) THEN floor
  ELSE MaxLenFrom(packets, i + 1, IF PLen(packets[i]) > floor THEN PLen(packets[i]) ELSE floor)

\* acc[i] ^= pkt[i] for every packet and every i < len(pkt); acc is a byte at position pos.
RECURSIVE XorColumn(_, _, _, _)
XorColumn(packets, i, pos, acc) ==
  IF i > Len(packets) THEN acc
  ELSE XorColumn(packets, i + 1, pos,
                 IF pos <= PLen(packets[i]) THEN BXor(acc, packets[i][pos]) ELSE acc)

\* Config.Validate.
Validate(config) ==
  /\ config.RedundancyPercent >= 0 /\ config.RedundancyPercent <= 100
  /\ config.BlockSize > 0 /\ config.BlockSize <= 255

\* CalculateRedundancyPackets that leaves out the floor of one packet.
CalculateRedundancyPackets_NoFloor(config, dataPackets) ==
  (dataPackets * config.RedundancyPercent) \div 100

\* Config.CalculateRedundancyPackets.
CalculateRedundancyPackets(config, dataPackets) ==
  IF config.RedundancyPercent = 0 THEN 0
  ELSE LET redundancy == (dataPackets * config.RedundancyPercent) \div 100
       IN  IF redundancy = 0 /\ config.RedundancyPercent > 0 THEN 1 ELSE redundancy

\* xorPackets without its header: the XOR of the packets alone.
xorPackets_NoHeader(packets) ==
  LET maxSize == MaxLenFrom(packets, 1, 0)
  IN  IF Len(packets) = 0 \/ maxSize = 0 THEN Nil
      ELSE [pos \in 1..maxSize |-> XorColumn(packets, 1, pos, 0)]

\* XOREncoder.xorPackets: [len(packets)][len hi, len lo]... then the XOR of the packets.
xorPackets(packets) ==
  LET maxSize == MaxLenFrom(packets, 1, 0)
      header  == <<Len(packets) % 256>> \o
                 [k \in 1..(2 * Len(packets)) |->
                    LET l == PLen(packets[(k + 1) \div 2])
                    IN  IF k % 2 = 1 THEN (l \div 256) % 256 ELSE l % 256]
  IN  IF Len(packets) = 0 \/ maxSize = 0 THEN Nil
      ELSE header \o [pos \in 1..maxSize |-> XorColumn(packets, 1, pos, 0)]

\* The redundancy packets Encode appends: one per block of BlockSize packets.
RECURSIVE EncodeBlocks(_, _, _, _)
EncodeBlocks(config, packets, blockIdx, numBlocks) ==
  IF blockIdx >= numBlocks THEN <<>>
  ELSE LET blockStart       == blockIdx * config.BlockSize
           blockEnd         == Min(blockStart + config.BlockSize, Len(packets))
           redundancyPacket == xorPackets(SubSeq(packets, blockStart + 1, blockEnd))
       IN  (IF redundancyPacket # Nil THEN <<redundancyPacket>> ELSE <<>>)
           \o EncodeBlocks(config, packets, blockIdx + 1, numBlocks)

\* XOREncoder.Encode.
Encode(config, packets) ==
  IF Len(packets) = 0 THEN packets
  ELSE IF CalculateRedundancyPackets(config, Len(packets)) = 0 THEN packets
  ELSE LET numBlocks == (Len(packets) + config.BlockSize - 1) \div config.BlockSize
       IN  packets \o EncodeBlocks(config, packets, 0, numBlocks)

\* xorPacketsWithRedundancy without the cut to the original length.
xorPacketsWithRedundancy_NoTruncate(availablePackets, redundancyPacket, headerSize, originalLen) ==
  IF Len(redundancyPacket) < headerSize THEN Nil
  ELSE LET maxSize        == MaxLenFrom(availablePackets, 1, originalLen)
           redundancyData == SubSeq(redundancyPacket, headerSize + 1, Len(redundancyPacket))
       IN  [pos \in 1..maxSize |->
              XorColumn(availablePackets, 1, pos,
                        IF pos <= Len(redundancyData) THEN redundancyData[pos] ELSE 0)]

\* XORDecoder.xorPacketsWithRedundancy.
xorPacketsWithRedundancy(availablePackets, redundancyPacket, headerSize, originalLen) ==
  IF Len(redundancyPacket) < headerSize THEN Nil
  ELSE LET maxSize        == MaxLenFrom(availablePackets, 1, originalLen)
           redundancyData == SubSeq(redundancyPacket, headerSize + 1, Len(redundancyPacket))
           result == [pos \in 1..maxSize |->
                        XorColumn(availablePackets, 1, pos,
                                  IF pos <= Len(redundancyData) THEN redundancyData[pos] ELSE 0)]
       IN  SubSeq(result, 1, originalLen)

\* The packets of positions from..to-1 (0-based) that are there, except position lostIdx.
RECURSIVE AvailablePackets(_, _, _, _)
AvailablePackets(packets, from, to, lostIdx) ==
  IF from >= to THEN <<>>
  ELSE (IF from # lostIdx /\ from < Len(packets) /\ packets[from + 1] # Nil
        THEN <<packets[from + 1]>> ELSE <<>>)
       \o AvailablePackets(packets, from + 1, to, lostIdx)

\* The body of Decode's loop for a block whose only lost index is lostIdx (0-based):
\* the recovered packet, or Nil when the block is skipped.
DecodeBlock(config, packets, lostIdx) ==
  LET blockIdx       == lostIdx \div config.BlockSize
      blockStart     == blockIdx * config.BlockSize
      blockEnd       == Min(blockStart + config.BlockSize, Len(packets))
      numDataPackets == Len(packets) - (Len(packets) \div (config.BlockSize + 1))
      redundancyIdx  == numDataPackets + blockIdx
  IN  IF redundancyIdx >= Len(packets) THEN Nil
      ELSE LET redundancyPacket == packets[redundancyIdx + 1]
           IN  IF redundancyPacket = Nil \/ Len(redundancyPacket) < 1 THEN Nil
               ELSE LET numPacketsInBlock      == redundancyPacket[1]
                        headerSize             == 1 + numPacketsInBlock * 2
                        lostPacketIndexInBlock == lostIdx - blockStart
                        offset                 == 1 + lostPacketIndexInBlock * 2
                    IN  IF Len(redundancyPacket) < headerSize THEN Nil
                        ELSE IF lostPacketIndexInBlock >= numPacketsInBlock THEN Nil
                        ELSE xorPacketsWithRedundancy(
                               AvailablePackets(packets, blockStart, blockEnd, lostIdx),
                               redundancyPacket, headerSize,
                               redundancyPacket[offset + 1] * 256 + redundancyPacket[offset + 2])

\* lostByBlock[blockIdx]: the lost indices of one block.
LostByBlock(config, lostIndices, blockIdx) ==
  SelectSeq(lostIndices, LAMBDA l : l \div config.BlockSize = blockIdx)

\* Decode without its test for exactly one loss per block: every lost index is recovered.
Decode_AnyLossCount(config, packets, lostIndices) ==
  IF Len(lostIndices) = 0 THEN <<>>
  ELSE [j \in 1..Len(packets) |->
          IF Len(SelectSeq(lostIndices, LAMBDA l : l = j - 1)) > 0
          THEN DecodeBlock(config, packets, j - 1)
          ELSE Nil]

\* Decode without its early return: the sparse result even when nothing is lost.
Decode_NoEarlyReturn(config, packets, lostIndices) ==
  [j \in 1..Len(packets) |->
     IF LostByBlock(config, lostIndices, (j - 1) \div config.BlockSize) = <<j - 1>>
     THEN DecodeBlock(config, packets, j - 1)
     ELSE Nil]

\* XORDecoder.Decode: nothing when nothing is lost; otherwise a sequence as long as
\* packets that holds, at the only lost index of a block, the packet recovered for it.
Decode(config, packets, lostIndices) ==
  IF Len(lostIndices) = 0 THEN <<>>
  ELSE [j \in 1..Len(packets) |->
          IF LostByBlock(config, lostIndices, (j - 1) \div config.BlockSize) = <<j - 1>>
          THEN DecodeBlock(config, packets, j - 1)
          ELSE Nil]

(***************************************************************************)
(* State.                                                                  *)
(***************************************************************************)
VARIABLES
  mode,         \* which part of the program this behaviour runs: "server", "pool"
  build,        \* "vpn": server.go's handler; "masque": masque_handler.go's
  registry,     \* the client_id values of the clients table of the database
  IPPool,       \* Server.IPPool
  ClientIPMap,  \* Server.ClientIPMap: client id -> address
  IPConnMap,    \* Server.IPConnMap: address -> session
  sess,         \* the ClientSessions created so far and where their handler stands
  nsess,        \* how many sessions were created
  adminRel,     \* disconnectClient calls between IPPoolMu.Unlock and IPPool.Release
  holder,       \* per allocated address: the session whose handler allocated it
  stray,        \* per session: addresses held for another session that its releases freed
  lastStatus,   \* the HTTP status of the last answered request (0: none written)
  running,      \* per session: how many of its pumps (proxy goroutines) still run
  run,          \* Server.Run: "serving", "signalled" (ctx.Done()), "exited" (returned)
  poolRet,      \* the result of the last Allocate call on the pool (pool mode)
  fecConfig,    \* fec.Config: BlockSize and RedundancyPercent
  batch,        \* codec: the data packets handed to Encode
  encoded,      \* codec: what Encode returned
  lost,         \* codec: the lost indices handed to Decode
  decoded,      \* codec: what Decode returned
  cpc,          \* codec: "start", "encoded", "decoded"
  tunIn,        \* pump: the packets the sender's TUN still has to deliver
  tunRead,      \* pump: the packets ProxyFromTunToVPN has read from its TUN, in order
  seqNum,       \* pump: ProxyFromTunToVPN's seqNum
  blocks,       \* pump: the lengths of the packet buffers handed to EncodeAndSendBlock
  tunnel,       \* pump: the frames in flight, in order
  dropSeqs,     \* pump: the sequence numbers the transport drops
  currentBlockID,   \* pump: ProxyFromVPNToTun's currentBlockID
  blockBuffer,      \* pump: ProxyFromVPNToTun's blockBuffer
  receivedIndices,  \* pump: ProxyFromVPNToTun's receivedIndices
  tunOut,       \* pump: the writes to the receiver's TUN, in order
  decodeCalls,  \* pump: how many times recoverAndWriteBlock called Decode
  processor,    \* demux: the file whose Server.processPackets the build links
  FecEnabled,   \* demux: Config.FEC.Enabled, copied to every ClientSession.FecEnabled
  serverTun,    \* demux: the packets waiting on the server's TUN device, in order
  PacketBuffer, \* demux: ClientSession.PacketBuffer of every session
  SeqNum,       \* demux: ClientSession.SeqNum of every session
  connOut,      \* demux: per session, what session.Conn.WritePacket was called with
  handed,       \* demux: per session, the TUN packets passed to its send path
  site,         \* exit: who started the pumps: "client" (vpn_client main), "server"
  pumpState,    \* exit: per pump: where it stands, its terminal value and the cause
  errChan,      \* exit: the values buffered in the error channel
  callerPc,     \* exit: the caller: "wait", "closing", "done"
  Mu,           \* lock: ClientSession.Mu: the caller holding it, 0 when free
  senders,      \* lock: per concurrent caller of the send path: where it stands
  written,      \* lock: per frame written to the session's tunnel, the lock hold it was written in
  masqueConn,   \* conn: the MASQUEConn: closed, readChan, writeChan
  forwarder,    \* conn: the goroutine of NewMASQUEConnForServer linking the channels
  writer,       \* conn: the WritePacket call in progress
  reader,       \* conn: the ReadPacket call in progress
  ret,          \* conn: what the last call that returned has returned
  accepted,     \* conn: the packets for which WritePacket returned nil, in order
  delivered,    \* conn: the packets ReadPacket returned, in order
  dropped,      \* conn: which of the accepted packets the forwarder dropped
  taken,        \* conn: how many packets the forwarder has received from writeChan
  dataPackets,  \* calc: the argument of Config.CalculateRedundancyPackets
  redundancy,   \* calc: what CalculateRedundancyPackets returned (-1: not called yet)
  lastErr,      \* calc: the error handed to GetRecoveryStrategy, as its Unwrap chain
  strategy,     \* calc: what GetRecoveryStrategy returned ("": not called yet)
  decodeIn,     \* calc: the arguments of a Decode call on arbitrary input: packets, lost
  decodeOut     \* calc: how that call ended: called, panicked, err, recovered

serverVars == <<build, registry, IPPool, ClientIPMap, IPConnMap, sess, nsess, adminRel,
                holder, stray, lastStatus, poolRet, running, run>>
codecVars == <<batch, encoded, lost, decoded, cpc>>
pumpVars == <<tunIn, tunRead, seqNum, blocks, tunnel, dropSeqs, currentBlockID, blockBuffer,
              receivedIndices, tunOut, decodeCalls>>
demuxVars == <<processor, FecEnabled, serverTun, PacketBuffer, SeqNum, connOut, handed>>
exitVars == <<site, pumpState, errChan, callerPc>>
lockVars == <<Mu, senders, written>>
connVars == <<masqueConn, forwarder, writer, reader, ret, accepted, delivered, dropped, taken>>
calcVars == <<dataPackets, redundancy, lastErr, strategy, decodeIn, decodeOut>>
dataVars == <<fecConfig, codecVars, pumpVars, demuxVars, exitVars, lockVars, connVars, calcVars>>
vars == <<mode, serverVars, dataVars>>

ip4(a, b, c, d) == <<a, b, c, d>>

\* ProxyFromVPNToTun's initial currentBlockID, 0xFFFFFFFF as a signed 32-bit number.
InvalidBlockID == -1

\* The codec and the pumps before anything ran.
IdleCodec ==
  /\ batch = <<>> /\ encoded = <<>> /\ lost = <<>> /\ decoded = <<>> /\ cpc = "start"

IdlePump ==
  /\ tunIn = <<>> /\ tunRead = <<>> /\ seqNum = 0 /\ blocks = <<>> /\ tunnel = <<>>
  /\ dropSeqs = {}
  /\ currentBlockID = InvalidBlockID /\ blockBuffer = <<>> /\ receivedIndices = <<>>
  /\ tunOut = <<>> /\ decodeCalls = 0

\* The demultiplexer before anything ran.
IdleDemux ==
  /\ processor = "server.go" /\ FecEnabled = FALSE /\ serverTun = <<>>
  /\ PacketBuffer = <<>> /\ SeqNum = <<>> /\ connOut = <<>> /\ handed = <<>>

\* No pump was started.
IdleExit ==
  /\ site = "server" /\ pumpState = <<>> /\ errChan = <<>> /\ callerPc = "wait"

\* No caller of a session's send path runs.
IdleLock ==
  /\ Mu = 0 /\ senders = <<>> /\ written = <<>>

\* No MASQUEConn under observation.
IdleConn ==
  /\ masqueConn = <<>> /\ forwarder = <<>> /\ writer = <<>> /\ reader = <<>> /\ ret = <<>>
  /\ accepted = <<>> /\ delivered = <<>> /\ dropped = {} /\ taken = 0

\* CalculateRedundancyPackets was not called.
IdleCalc ==
  /\ dataPackets = 0 /\ redundancy = -1 /\ lastErr = <<>> /\ strategy = ""
  /\ decodeIn = <<>> /\ decodeOut = <<>>

\* The FEC configuration of the scenarios: block_size 10, redundancy_percent 10.
ScenarioConfig == [BlockSize |-> 10, RedundancyPercent |-> 10]

\* Client identifiers (certificate Common-Names).
ClientIDs == {"c1", "c2"}
\* The client registry (the clients table of the database) when the server starts.
Registry == {"c1", "c2"}
\* Common-Names a request may carry: registered ones, an unregistered one, an empty one.
CommonNames == ClientIDs \cup {"zz", ""}

\* assign_cidr values of the server configurations explored.
AssignCIDRs == {[addr |-> ip4(10, 9, 9, 0), bits |-> 30],
                [addr |-> ip4(10, 0, 0, 0), bits |-> 29]}

Sessions == 1..MaxSessions

\* The pumps a session's handler starts: ProxyFromVPNToTun in server.go, the two
\* proxies in masque_handler.go.
PumpsPerSession == IF build = "vpn" THEN 1 ELSE 2

NoSession == [pc |-> "none", client |-> "", addr |-> <<>>, closed |-> FALSE,
              killed |-> "no"]

InitServerState ==
  /\ registry = Registry
  /\ ClientIPMap = EmptyMap
  /\ IPConnMap = EmptyMap
  /\ sess = [s \in Sessions |-> NoSession]
  /\ nsess = 0
  /\ adminRel = {}
  /\ holder = EmptyMap
  /\ stray = [s \in 0..MaxSessions |-> 0]
  /\ lastStatus = 0
  /\ running = [s \in Sessions |-> 0]
  /\ run = "serving"

\* server.New: the pool over the masked assign_cidr, with the first address as gateway.
New(cidr) ==
  LET networkInfo == NewNetworkInfo(cidr)
  IN  NewIPPool(networkInfo.prefix, networkInfo.gateway)

Init ==
  /\ mode = "server"
  /\ build \in {"vpn", "masque"}
  /\ \E cidr \in AssignCIDRs : IPPool = New(cidr)
  /\ InitServerState
  /\ poolRet = [ok |-> TRUE, ip |-> <<>>]
  /\ fecConfig = ScenarioConfig /\ IdleCodec /\ IdlePump /\ IdleDemux /\ IdleExit /\ IdleLock /\ IdleConn /\ IdleCalc

\* The bookkeeping of a Release(ip) call made for session s (0: for none): when it
\* frees an address, the address is held for no session any more, and the release is
\* a stray one if the address was held for another session than s.
Freed(s, ip) ==
  IF ip \in DOMAIN IPPool.allocated
  THEN /\ holder' = MapDelete(holder, ip)
       /\ stray' = IF holder[ip] # s THEN [stray EXCEPT ![s] = @ + 1] ELSE stray
  ELSE UNCHANGED <<holder, stray>>

(***************************************************************************)
(* server.go: the /vpn handler of Server.Run.                              *)
(***************************************************************************)
\* A request: whether it carries a client certificate, the certificate's
\* Common-Name, its method and whether it carries the MASQUE headers.
Requests == [cert : BOOLEAN, cn : CommonNames, masque : BOOLEAN, method : {"CONNECT", "GET"}]

VpnHandler(r) ==
  /\ mode = "server" /\ build = "vpn" /\ run = "serving"
  /\ nsess < MaxSessions
  /\ IF ~r.cert
     THEN /\ lastStatus' = 401
          /\ UNCHANGED <<IPPool, ClientIPMap, IPConnMap, sess, nsess, holder>>
     ELSE IF r.cn \notin registry
     THEN /\ lastStatus' = 401
          /\ UNCHANGED <<IPPool, ClientIPMap, IPConnMap, sess, nsess, holder>>
     ELSE IF ~r.masque \/ r.method # "CONNECT"
     THEN /\ lastStatus' = 400
          /\ UNCHANGED <<IPPool, ClientIPMap, IPConnMap, sess, nsess, holder>>
     ELSE LET got == Allocate(IPPool, r.cn)
              s   == nsess + 1
          IN  IF ~got.ok
              THEN \* p.Proxy has answered; the handler only closes the connection
                   /\ lastStatus' = 200
                   /\ UNCHANGED <<IPPool, ClientIPMap, IPConnMap, sess, nsess, holder>>
              ELSE /\ lastStatus' = 200
                   /\ IPPool' = got.pool
                   /\ ClientIPMap' = MapPut(ClientIPMap, r.cn, got.ip)
                   /\ IPConnMap' = MapPut(IPConnMap, got.ip, s)
                   /\ holder' = MapPut(holder, got.ip, s)
                   /\ sess' = [sess EXCEPT ![s] = [pc |-> "assign", client |-> r.cn,
                                                   addr |-> got.ip, closed |-> FALSE,
                                                   killed |-> "no"]]
                   /\ nsess' = s
  /\ UNCHANGED dataVars
  /\ UNCHANGED <<mode, build, registry, run, running, adminRel, stray, poolRet>>

\* The failure branch of handleClientConnection: release and delete, unconditionally;
\* the deferred session.Conn.Close() runs on return.
handleClientConnection_Fail(s) ==
  /\ IPPool' = Release(IPPool, sess[s].addr)
  /\ ClientIPMap' = MapDelete(ClientIPMap, sess[s].client)
  /\ IPConnMap' = MapDelete(IPConnMap, sess[s].addr)
  /\ Freed(s, sess[s].addr)
  /\ sess' = [sess EXCEPT ![s].pc = "failed", ![s].closed = TRUE]

\* handleClientConnection up to session.Conn.AssignAddresses.
handleClientConnection_Assign(s) ==
  /\ mode = "server" /\ build = "vpn" /\ run # "exited"
  /\ sess[s].pc = "assign"
  /\ \/ /\ ~sess[s].closed
        /\ sess' = [sess EXCEPT ![s].pc = "advertise"]
        /\ UNCHANGED <<IPPool, ClientIPMap, IPConnMap, holder, stray>>
     \/ handleClientConnection_Fail(s)
  /\ UNCHANGED dataVars
  /\ UNCHANGED <<mode, build, registry, run, running, nsess, adminRel, lastStatus, poolRet>>

\* handleClientConnection: session.Conn.AdvertiseRoute, then the pump is started.
handleClientConnection_Advertise(s) ==
  /\ mode = "server" /\ build = "vpn" /\ run # "exited"
  /\ sess[s].pc = "advertise"
  /\ \/ /\ ~sess[s].closed
        /\ sess' = [sess EXCEPT ![s].pc = "pump"]
        /\ running' = [running EXCEPT ![s] = PumpsPerSession]
        /\ UNCHANGED <<IPPool, ClientIPMap, IPConnMap, holder, stray>>
     \/ /\ handleClientConnection_Fail(s)
        /\ UNCHANGED running
  /\ UNCHANGED dataVars
  /\ UNCHANGED <<mode, build, registry, run, nsess, adminRel, lastStatus, poolRet>>

\* handleClientConnection: err := <-errChan; session.Conn.Close(); wg.Wait().
\* The pump ends when the client goes away, the connection is closed or an I/O fails.
handleClientConnection_PumpExit(s) ==
  /\ mode = "server" /\ build = "vpn" /\ run # "exited"
  /\ sess[s].pc = "pump"
  /\ sess' = [sess EXCEPT ![s].pc = "exited", ![s].closed = TRUE]
  /\ running' = [running EXCEPT ![s] = 0]
  /\ UNCHANGED dataVars
  /\ UNCHANGED <<mode, build, registry, run, IPPool, ClientIPMap, IPConnMap, nsess, adminRel,
                 holder, stray, lastStatus, poolRet>>

\* handleClientConnection: the release at the end, under IPPoolMu.
handleClientConnection_Release(s) ==
  /\ mode = "server" /\ build = "vpn" /\ run # "exited"
  /\ sess[s].pc = "exited"
  /\ IF sess[s].client \in DOMAIN ClientIPMap /\ ClientIPMap[sess[s].client] = sess[s].addr
     THEN /\ IPPool' = Release(IPPool, sess[s].addr)
          /\ ClientIPMap' = MapDelete(ClientIPMap, sess[s].client)
          /\ IPConnMap' = MapDelete(IPConnMap, sess[s].addr)
          /\ Freed(s, sess[s].addr)
     ELSE UNCHANGED <<IPPool, ClientIPMap, IPConnMap, holder, stray>>
  /\ sess' = [sess EXCEPT ![s].pc = "done"]
  /\ UNCHANGED dataVars
  /\ UNCHANGED <<mode, build, registry, run, running, nsess, adminRel, lastStatus, poolRet>>

(***************************************************************************)
(* masque_handler.go: handleMASQUERequest.                                 *)
(***************************************************************************)
\* assignIPToClient: the client's existing address, or a newly allocated one.
assignIPToClient(clientID) ==
  IF clientID \in DOMAIN ClientIPMap
  THEN [ok |-> TRUE, ip |-> ClientIPMap[clientID], pool |-> IPPool, cmap |-> ClientIPMap]
  ELSE LET got == Allocate(IPPool, clientID)
       IN  IF ~got.ok
           THEN [ok |-> FALSE, ip |-> <<>>, pool |-> IPPool, cmap |-> ClientIPMap]
           ELSE [ok |-> TRUE, ip |-> got.ip, pool |-> got.pool,
                 cmap |-> MapPut(ClientIPMap, clientID, got.ip)]

\* handleMASQUERequest up to and including assignIPToClient and the 200 answer.
handleMASQUERequest(r) ==
  /\ mode = "server" /\ build = "masque" /\ run = "serving"
  /\ nsess < MaxSessions
  /\ IF r.method # "CONNECT"
     THEN /\ lastStatus' \in {200, 405}    \* GET /: server info; otherwise 405
          /\ UNCHANGED <<IPPool, ClientIPMap, sess, nsess, holder>>
     ELSE IF ~r.masque
     THEN /\ lastStatus' = 400
          /\ UNCHANGED <<IPPool, ClientIPMap, sess, nsess, holder>>
     ELSE IF ~r.cert \/ r.cn = ""
     THEN /\ lastStatus' = 401
          /\ UNCHANGED <<IPPool, ClientIPMap, sess, nsess, holder>>
     ELSE LET got == assignIPToClient(r.cn)
              s   == nsess + 1
          IN  IF ~got.ok
              THEN /\ lastStatus' = 500
                   /\ UNCHANGED <<IPPool, ClientIPMap, sess, nsess, holder>>
              ELSE /\ lastStatus' = 200
                   /\ IPPool' = got.pool
                   /\ ClientIPMap' = got.cmap
                   /\ holder' = IF got.pool = IPPool THEN holder
                                 ELSE MapPut(holder, got.ip, s)
                   /\ sess' = [sess EXCEPT ![s] = [pc |-> "store", client |-> r.cn,
                                                   addr |-> got.ip, closed |-> FALSE,
                                                   killed |-> "no"]]
                   /\ nsess' = s
  /\ UNCHANGED dataVars
  /\ UNCHANGED <<mode, build, registry, run, running, IPConnMap, adminRel, stray, poolRet>>

\* handleMASQUERequest: the session is stored in IPConnMap in a critical section of
\* its own, and handleClientConnection starts the two proxies.
handleMASQUERequest_Store(s) ==
  /\ mode = "server" /\ build = "masque" /\ run # "exited"
  /\ sess[s].pc = "store"
  /\ IPConnMap' = MapPut(IPConnMap, sess[s].addr, s)
  /\ sess' = [sess EXCEPT ![s].pc = "pump"]
  /\ running' = [running EXCEPT ![s] = PumpsPerSession]
  /\ UNCHANGED dataVars
  /\ UNCHANGED <<mode, build, registry, run, IPPool, ClientIPMap, nsess, adminRel, holder, stray,
                 lastStatus, poolRet>>

\* A proxy goroutine of handleClientConnection (masque_handler.go) returns: its I/O
\* failed, or the handler has returned and cancelled its context.
proxyReturn(s) ==
  /\ mode = "server" /\ build = "masque" /\ run # "exited"
  /\ running[s] > 0
  /\ running' = [running EXCEPT ![s] = @ - 1]
  /\ UNCHANGED dataVars
  /\ UNCHANGED <<mode, build, registry, run, IPPool, ClientIPMap, IPConnMap, sess, nsess, adminRel,
                 holder, stray, lastStatus, poolRet>>

\* handleClientConnection (masque_handler.go): the first value on errChan, or the timeout.
masque_handleClientConnection(s) ==
  /\ mode = "server" /\ build = "masque" /\ run # "exited"
  /\ sess[s].pc = "pump"
  /\ sess' = [sess EXCEPT ![s].pc = "exited"]
  /\ UNCHANGED dataVars
  /\ UNCHANGED <<mode, build, registry, run, running, IPPool, ClientIPMap, IPConnMap, nsess, adminRel,
                 holder, stray, lastStatus, poolRet>>

\* cleanupClientSession: delete the client, close and delete whatever session sits at
\* the address, release the address.
cleanupClientSession(s) ==
  /\ mode = "server" /\ build = "masque" /\ run # "exited"
  /\ sess[s].pc = "exited"
  /\ ClientIPMap' = MapDelete(ClientIPMap, sess[s].client)
  /\ IPConnMap' = MapDelete(IPConnMap, sess[s].addr)
  /\ IPPool' = Release(IPPool, sess[s].addr)
  /\ Freed(s, sess[s].addr)
  /\ LET found == IF sess[s].addr \in DOMAIN IPConnMap THEN IPConnMap[sess[s].addr] ELSE 0
     IN  sess' = [t \in Sessions |->
                    [sess[t] EXCEPT !.pc = IF t = s THEN "done" ELSE @,
                                    !.closed = IF t = found THEN TRUE ELSE @]]
  /\ UNCHANGED dataVars
  /\ UNCHANGED <<mode, build, registry, run, running, nsess, adminRel, lastStatus, poolRet>>

(***************************************************************************)
(* The administrative API: APIServer.disconnectClient.                     *)
(***************************************************************************)
\* disconnectClient, the critical section under IPPoolMu: close and delete the
\* session at the client's address, delete the client.
disconnectClient(clientID) ==
  /\ mode = "server" /\ run # "exited"
  /\ IF clientID \notin DOMAIN ClientIPMap
     THEN /\ lastStatus' = 404
          /\ UNCHANGED <<ClientIPMap, IPConnMap, sess, adminRel>>
     ELSE LET assignedIP == ClientIPMap[clientID]
              victim     == IF assignedIP \in DOMAIN IPConnMap THEN IPConnMap[assignedIP] ELSE 0
              held       == IF assignedIP \in DOMAIN holder THEN holder[assignedIP] ELSE 0
          IN  /\ IPConnMap' = MapDelete(IPConnMap, assignedIP)
              /\ ClientIPMap' = MapDelete(ClientIPMap, clientID)
              /\ sess' = [t \in Sessions |->
                            IF t = victim
                            THEN [sess[t] EXCEPT !.closed = TRUE, !.killed = "removed"]
                            ELSE sess[t]]
              /\ adminRel' = adminRel \cup {[addr |-> assignedIP, sid |-> victim, held |-> held]}
              /\ lastStatus' = lastStatus
  /\ UNCHANGED dataVars
  /\ UNCHANGED <<mode, build, registry, run, running, IPPool, nsess, holder, stray, poolRet>>

\* disconnectClient, after IPPoolMu.Unlock: api.server.IPPool.Release(assignedIP).
disconnectClient_Release(a) ==
  /\ mode = "server" /\ run # "exited"
  /\ a \in adminRel
  /\ IPPool' = Release(IPPool, a.addr)
  /\ adminRel' = adminRel \ {a}
  /\ Freed(a.held, a.addr)
  /\ sess' = [t \in Sessions |->
                IF t = a.sid THEN [sess[t] EXCEPT !.killed = "released"] ELSE sess[t]]
  /\ lastStatus' = 200
  /\ UNCHANGED dataVars
  /\ UNCHANGED <<mode, build, registry, run, running, ClientIPMap, IPConnMap, nsess, poolRet>>

\* ginHandleDeleteClient (DELETE /clients and POST /clients/kick of the web API
\* started by vpn_server/main.go, whose handleClientConnection ends with the same
\* guarded release as server.go's): under ipPoolMu close and delete the session at the
\* client's address and delete the client; then delete the client's row from the
\* clients table.  The pool is not touched.
ginHandleDeleteClient(id) ==
  /\ mode = "server" /\ build = "vpn" /\ run # "exited"
  /\ IF id = ""
     THEN /\ lastStatus' = 400
          /\ UNCHANGED <<ClientIPMap, IPConnMap, sess, registry>>
     ELSE /\ IF id \in DOMAIN ClientIPMap
             THEN LET ip     == ClientIPMap[id]
                      victim == IF ip \in DOMAIN IPConnMap THEN IPConnMap[ip] ELSE 0
                  IN  /\ IPConnMap' = MapDelete(IPConnMap, ip)
                      /\ ClientIPMap' = MapDelete(ClientIPMap, id)
                      /\ sess' = [t \in Sessions |->
                                    IF t = victim
                                    THEN [sess[t] EXCEPT !.closed = TRUE, !.killed = "kicked"]
                                    ELSE sess[t]]
             ELSE UNCHANGED <<ClientIPMap, IPConnMap, sess>>
          /\ \/ /\ registry' = registry \ {id}     \* DELETE FROM clients
                /\ lastStatus' = 200
             \/ /\ registry' = registry            \* sql.Open or db.Exec failed
                /\ lastStatus' = 500
  /\ UNCHANGED dataVars
  /\ UNCHANGED <<mode, build, run, running, IPPool, nsess, adminRel, holder, stray, poolRet>>

\* Server.Run: the shutdown signal arrives (<-ctx.Done()).
Signal ==
  /\ mode = "server" /\ run = "serving"
  /\ run' = "signalled"
  /\ UNCHANGED dataVars
  /\ UNCHANGED <<mode, build, registry, running, IPPool, ClientIPMap, IPConnMap, sess, nsess,
                 adminRel, holder, stray, lastStatus, poolRet>>

\* Server.Run: h3Server.Shutdown with an expired context, wg.Wait() for the goroutine
\* of ServeListener, and Run returns; the process ends with it.
Run_Return ==
  /\ mode = "server" /\ run = "signalled"
  /\ run' = "exited"
  /\ UNCHANGED dataVars
  /\ UNCHANGED <<mode, build, registry, running, IPPool, ClientIPMap, IPConnMap, sess, nsess,
                 adminRel, holder, stray, lastStatus, poolRet>>

Next ==
  \/ Signal
  \/ Run_Return
  \/ \E s \in Sessions : proxyReturn(s)
  \/ \E r \in Requests : VpnHandler(r)
  \/ \E s \in Sessions : handleClientConnection_Assign(s)
  \/ \E s \in Sessions : handleClientConnection_Advertise(s)
  \/ \E s \in Sessions : handleClientConnection_PumpExit(s)
  \/ \E s \in Sessions : handleClientConnection_Release(s)
  \/ \E r \in Requests : handleMASQUERequest(r)
  \/ \E s \in Sessions : handleMASQUERequest_Store(s)
  \/ \E s \in Sessions : masque_handleClientConnection(s)
  \/ \E s \in Sessions : cleanupClientSession(s)
  \/ \E c \in ClientIDs \cup {"zz"} : disconnectClient(c)
  \/ \E a \in adminRel : disconnectClient_Release(a)
  \/ \E id \in CommonNames : ginHandleDeleteClient(id)

Spec == Init /\ [][Next]_vars

(***************************************************************************)
(* Session teardown and the address pool.                                  *)
(***************************************************************************)
\* Session s has been torn down: its pump has exited, its handler has returned and no
\* administrative disconnect that removed it still has its Release to make.
TornDown(s) == sess[s].pc = "done" /\ \A a \in adminRel : a.held # s /\ a.sid # s

\* C1: every session's address is released to the IPPool exactly once: once the
\* session is torn down the address allocated for it is no longer allocated, and the
\* Release calls made for the session free no address held for another session (a
\* second release of an address that has been handed out again).
C1_ReleasedExactlyOnce ==
  \A s \in Sessions :
    sess[s].pc # "failed" =>
      /\ stray[s] = 0
      /\ TornDown(s) => \A a \in DOMAIN holder : holder[a] # s

\* The step in which the handler of session s makes its final release
\* (handleClientConnection's last critical section, or cleanupClientSession).
FinalRelease(s) == sess[s].pc = "exited" /\ sess'[s].pc = "done"

\* C2: when an administrative disconnect has removed session s and released its
\* address, the later final release of s changes neither the pool nor the session
\* table nor the tunnel of any other session.
C2_NoSecondRelease ==
  [][\A s \in Sessions :
       (sess[s].killed = "released" /\ FinalRelease(s)) =>
         /\ IPPool' = IPPool
         /\ ClientIPMap' = ClientIPMap
         /\ IPConnMap' = IPConnMap
         /\ \A t \in Sessions \ {s} : sess'[t].closed = sess[t].closed]_vars

\* C3: ClientIPMap[c] = a exactly when IPConnMap[a] exists and is a session of client c.
C3_MappingBijection ==
  \A c \in CommonNames :
    \A a \in (DOMAIN IPConnMap) \cup {ClientIPMap[x] : x \in DOMAIN ClientIPMap} :
      (c \in DOMAIN ClientIPMap /\ ClientIPMap[c] = a)
        <=> (a \in DOMAIN IPConnMap /\ sess[IPConnMap[a]].client = c)

(***************************************************************************)
(* The IPPool on its own: any sequence of Allocate and Release calls.      *)
(***************************************************************************)
\* The pools explored: those of server.New, and TestIPPool's 10.0.0.0/30 with gateway 10.0.0.1.
PoolCIDRs == AssignCIDRs \cup {[addr |-> ip4(10, 0, 0, 0), bits |-> 30]}

InitPool ==
  /\ mode = "pool"
  /\ build = "vpn"
  /\ \E cidr \in PoolCIDRs : IPPool = New(cidr)
  /\ InitServerState
  /\ poolRet = [ok |-> TRUE, ip |-> <<>>]
  /\ fecConfig = ScenarioConfig /\ IdleCodec /\ IdlePump /\ IdleDemux /\ IdleExit /\ IdleLock /\ IdleConn /\ IdleCalc

\* The addresses of a prefix that masks at most its last byte.
AddrsOf(prefix) ==
  LET n    == Len(prefix.addr)
      base == Masked(prefix).addr
      h    == Pow2(HostBits(prefix.bits, n))
  IN  {a \in {[base EXCEPT ![n] = d] : d \in base[n]..(base[n] + h - 1)} :
         Contains(prefix, a)}

\* The addresses Release is called with: those of the prefix, and one outside it.

ReleaseInputs(p) == AddrsOf(p.prefix) \cup {nextIP(LastIP(p.prefix))}

\* A call of IPPool.Allocate(clientID).
PoolAllocate(clientID) ==
  /\ mode = "pool"
  /\ LET got == Allocate(IPPool, clientID)
     IN  /\ IPPool' = got.pool
         /\ poolRet' = [ok |-> got.ok, ip |-> got.ip]
  /\ UNCHANGED dataVars
  /\ UNCHANGED <<mode, build, registry, run, running, ClientIPMap, IPConnMap, sess, nsess, adminRel, holder,
                 stray, lastStatus>>

\* A call of IPPool.Release(ip), with any address.
PoolRelease(ip) ==
  /\ mode = "pool"
  /\ IPPool' = Release(IPPool, ip)
  /\ UNCHANGED dataVars
  /\ UNCHANGED <<mode, build, registry, run, running, ClientIPMap, IPConnMap, sess, nsess, adminRel, holder,
                 stray, lastStatus, poolRet>>

NextPool ==
  \/ \E c \in ClientIDs : PoolAllocate(c)
  \/ \E ip \in ReleaseInputs(IPPool) : PoolRelease(ip)

SpecPool == InitPool /\ [][NextPool]_vars

\* The assignable addresses of a pool: inside the prefix, neither the network
\* address nor the gateway.
Assignable(p) ==
  {a \in AddrsOf(p.prefix) : a # Masked(p.prefix).addr /\ a # p.gateway}

Range(seq) == {seq[i] : i \in 1..Len(seq)}

\* C4: pool conservation: every assignable address is in exactly one of the free list
\* and the allocated map, the free list holds no address twice, and Stats reports
\* total = allocated + available, the total being the number of assignable addresses
\* the pool started with.
C4_PoolConservation ==
  /\ Range(IPPool.available) \cup DOMAIN IPPool.allocated = Assignable(IPPool)
  /\ Range(IPPool.available) \cap DOMAIN IPPool.allocated = {}
  /\ Cardinality(Range(IPPool.available)) = Len(IPPool.available)
  /\ Stats(IPPool).total = Stats(IPPool).allocated + Stats(IPPool).available
  /\ Stats(IPPool).total = Stats(NewIPPool(IPPool.prefix, IPPool.gateway)).total
  /\ Stats(IPPool).total = Cardinality(Assignable(IPPool))

\* An address was released and allocated again while others stay allocated.
C4_Witness ==
  /\ mode = "pool"
  /\ DOMAIN IPPool.allocated # {}
  /\ Len(IPPool.available) >= 2
  /\ Compare(IPPool.available[Len(IPPool.available)], IPPool.available[1]) < 0

\* C5: a successful Allocate (the one call that shortens the free list) returns an
\* address inside the prefix that is neither the network address nor the gateway, and
\* that was not allocated when it was called.
C5_AllocateFresh ==
  [][Len(IPPool'.available) < Len(IPPool.available) =>
       /\ poolRet'.ok
       /\ Contains(IPPool.prefix, poolRet'.ip)
       /\ poolRet'.ip # Masked(IPPool.prefix).addr
       /\ poolRet'.ip # IPPool.gateway
       /\ poolRet'.ip \notin DOMAIN IPPool.allocated
       /\ poolRet'.ip \in DOMAIN IPPool'.allocated]_vars

\* Allocate has returned an address that had been allocated and released before,
\* while another address is still allocated.
C5_Witness ==
  /\ mode = "pool"
  /\ poolRet.ok /\ poolRet.ip \in DOMAIN IPPool.allocated
  /\ Cardinality(DOMAIN IPPool.allocated) >= 2
  /\ \E a \in DOMAIN IPPool.allocated : Compare(poolRet.ip, a) < 0
  /\ Len(IPPool.available) = 0

(***************************************************************************)
(* The codec on its own: Encode a batch, lose some entries, Decode.        *)
(***************************************************************************)
\* The configurations explored; all pass Config.Validate.
CodecConfigs ==
  {[BlockSize |-> 1, RedundancyPercent |-> 100],
   [BlockSize |-> 2, RedundancyPercent |-> 50],
   [BlockSize |-> 3, RedundancyPercent |-> 34],
   [BlockSize |-> 2, RedundancyPercent |-> 0],
   ScenarioConfig}

\* The packets of the batches explored, of different lengths; the first has no bytes.
CodecPayloads == {<<>>, <<1>>, <<2, 3>>, <<255, 0, 7>>}

\* The batches: every sequence of 1 to MaxBatchLen packets.
Batches == UNION {[1..n -> CodecPayloads] : n \in 1..MaxBatchLen}

InitCodec ==
  /\ mode = "codec"
  /\ build = "vpn"
  /\ IPPool = New([addr |-> ip4(10, 0, 0, 0), bits |-> 30])
  /\ InitServerState
  /\ poolRet = [ok |-> TRUE, ip |-> <<>>]
  /\ fecConfig \in {c \in CodecConfigs : Validate(c)}
  /\ batch \in Batches
  /\ encoded = <<>> /\ lost = <<>> /\ decoded = <<>> /\ cpc = "start"
  /\ IdlePump /\ IdleDemux /\ IdleExit /\ IdleLock /\ IdleConn /\ IdleCalc

\* encoder.Encode(batch).
CodecEncode ==
  /\ mode = "codec" /\ cpc = "start"
  /\ encoded' = Encode(fecConfig, batch)
  /\ cpc' = "encoded"
  /\ UNCHANGED <<mode, serverVars, lockVars, connVars, calcVars, demuxVars, exitVars, fecConfig, batch, lost, decoded, pumpVars>>

\* The loss sets explored: nothing, one index, two indices of the encoded sequence.
LossSets(n) ==
  {<<>>} \cup {<<i>> : i \in 0..(n - 1)}
         \cup UNION {{<<i, j>> : j \in (i + 1)..(n - 1)} : i \in 0..(n - 1)}

\* The received sequence: the encoded one with nil at the lost indices.
Received(packets, lostIndices) ==
  [j \in 1..Len(packets) |->
     IF \E k \in 1..Len(lostIndices) : lostIndices[k] = j - 1 THEN Nil ELSE packets[j]]

\* decoder.Decode(received, lostIndices).
CodecDecode(lostIndices) ==
  /\ mode = "codec" /\ cpc = "encoded"
  /\ lost' = lostIndices
  /\ decoded' = Decode(fecConfig, Received(encoded, lostIndices), lostIndices)
  /\ cpc' = "decoded"
  /\ UNCHANGED <<mode, serverVars, lockVars, connVars, calcVars, demuxVars, exitVars, fecConfig, batch, encoded, pumpVars>>

NextCodec ==
  \/ CodecEncode
  \/ \E l \in LossSets(Len(encoded)) : CodecDecode(l)

SpecCodec == InitCodec /\ [][NextCodec]_vars

\* C7: single-loss recovery: for every valid configuration, every batch and every
\* index i of the batch, Decode of the encoded batch with entry i lost returns at
\* index i the packet of the batch.
C7_SingleLossRecovery ==
  (cpc = "decoded" /\ Len(lost) = 1 /\ lost[1] < Len(batch)) =>
    /\ Len(decoded) > lost[1]
    /\ decoded[lost[1] + 1] = batch[lost[1] + 1]

PutUint32(v) ==
  <<(v \div 16777216) % 256, (v \div 65536) % 256, (v \div 256) % 256, v % 256>>

\* binary.BigEndian.Uint32.
Uint32(b) == ((b[1] * 256 + b[2]) * 256 + b[3]) * 256 + b[4]

\* EncodeAndSendBlock: the frames written for one packet buffer, [SeqNum (4 bytes)][Data],
\* the sequence number counting every packet written.
EncodeAndSendBlock(config, packets, seq) ==
  LET enc == Encode(config, packets)
  IN  [frames |-> [k \in 1..Len(enc) |-> PutUint32(seq + k - 1) \o enc[k]],
       seqNum |-> seq + Len(enc)]

\* The loop of ProxyFromTunToVPN over the packets of one TUN read, from packet i on:
\* a full packetBuffer is encoded and sent, and what is left after the last packet is
\* flushed.  sent are the frames written so far, lens the buffer lengths encoded.
RECURSIVE ProcessBatch(_, _, _, _, _, _, _)
ProcessBatch(config, packets, i, packetBuffer, seq, sent, lens) ==
  IF i > Len(packets)
  THEN IF Len(packetBuffer) > 0
       THEN LET out == EncodeAndSendBlock(config, packetBuffer, seq)
            IN  [frames |-> sent \o out.frames, seqNum |-> out.seqNum,
                 lens |-> Append(lens, Len(packetBuffer))]
       ELSE [frames |-> sent, seqNum |-> seq, lens |-> lens]
  ELSE LET buffer == Append(packetBuffer, packets[i])
       IN  IF Len(buffer) >= config.BlockSize
           THEN LET out == EncodeAndSendBlock(config, buffer, seq)
                IN  ProcessBatch(config, packets, i + 1, <<>>, out.seqNum,
                                 sent \o out.frames, Append(lens, Len(buffer)))
           ELSE ProcessBatch(config, packets, i + 1, buffer, seq, sent, lens)

\* What the transport delivers of the frames written: all but the dropped sequence numbers.
Deliver(frames) == SelectSeq(frames, LAMBDA f : Uint32(f) \notin dropSeqs)

\* The indices 0..n-1 that are not among the received ones, ascending.
RECURSIVE LostIndices(_, _, _)
LostIndices(received, i, n) ==
  IF i >= n THEN <<>>
  ELSE (IF \E k \in 1..Len(received) : received[k] = i THEN <<>> ELSE <<i>>)
       \o LostIndices(received, i + 1, n)

\* The writes of recoverAndWriteBlock's last loop: the recovered packets of data indices.
RECURSIVE RecoveredWrites(_, _, _, _)
RecoveredWrites(config, recovered, i, blockID) ==
  IF i >= Len(recovered) THEN <<>>
  ELSE (IF recovered[i + 1] # Nil /\ i < config.BlockSize
        THEN <<[pkt |-> recovered[i + 1], via |-> "recovered", block |-> blockID, idx |-> i]>>
        ELSE <<>>)
       \o RecoveredWrites(config, recovered, i + 1, blockID)

\* recoverAndWriteBlock: nothing when no index is lost; otherwise Decode, and the
\* recovered data packets are written to the TUN.
recoverAndWriteBlock(config, buffer, received, blockID) ==
  LET lostIndices == LostIndices(received, 0, Len(buffer))
  IN  IF Len(lostIndices) = 0
      THEN [writes |-> <<>>, decodes |-> 0]
      ELSE [writes  |-> RecoveredWrites(config, Decode(config, buffer, lostIndices), 0, blockID),
            decodes |-> 1]

\* The packets the sender's TUN delivers: P(0), P(1), ..., of two lengths.
P(i) == IF i % 2 = 0 THEN <<69, i>> ELSE <<69, i, 255 - i>>

\* The FEC configurations of the pumps explored.
PumpConfigs == {ScenarioConfig, [BlockSize |-> 2, RedundancyPercent |-> 50]}

\* The sequence numbers the transport drops: none, S3's, S4's.
DropSets == {{}, {2}, {2, 3}}

\* ProxyFromVPNToTun's totalBlockSize.
TotalBlockSize(config) == config.BlockSize + CalculateRedundancyPackets(config, config.BlockSize)

InitPump ==
  /\ mode = "pump"
  /\ build = "vpn"
  /\ IPPool = New([addr |-> ip4(10, 0, 0, 0), bits |-> 30])
  /\ InitServerState
  /\ poolRet = [ok |-> TRUE, ip |-> <<>>]
  /\ IdleCodec /\ IdleDemux /\ IdleExit /\ IdleLock /\ IdleConn /\ IdleCalc
  /\ fecConfig \in PumpConfigs
  /\ \E n \in (MaxPackets - 1)..MaxPackets : tunIn = [i \in 1..n |-> P(i - 1)]
  /\ dropSeqs \in DropSets
  /\ tunRead = <<>> /\ seqNum = 0 /\ blocks = <<>> /\ tunnel = <<>>
  /\ currentBlockID = InvalidBlockID
  /\ blockBuffer = [i \in 1..TotalBlockSize(fecConfig) |-> Nil]
  /\ receivedIndices = <<>>
  /\ tunOut = <<>> /\ decodeCalls = 0

\* One iteration of ProxyFromTunToVPN's loop: dev.Read returns n packets.
ProxyFromTunToVPN(n) ==
  /\ mode = "pump"
  /\ n >= 1 /\ n <= Len(tunIn)
  /\ LET out == ProcessBatch(fecConfig, SubSeq(tunIn, 1, n), 1, <<>>, seqNum, <<>>, <<>>)
     IN  /\ tunnel' = tunnel \o Deliver(out.frames)
         /\ seqNum' = out.seqNum
         /\ blocks' = blocks \o out.lens
  /\ tunIn' = SubSeq(tunIn, n + 1, Len(tunIn))
  /\ tunRead' = tunRead \o SubSeq(tunIn, 1, n)
  /\ UNCHANGED <<mode, serverVars, lockVars, connVars, calcVars, demuxVars, exitVars, fecConfig, codecVars, dropSeqs, currentBlockID,
                 blockBuffer, receivedIndices, tunOut, decodeCalls>>

\* The block buffer left as it is when a new block begins.
ResetBlock_Keep(buffer) == buffer

\* The reset for a new block: for i := range blockBuffer { blockBuffer[i] = nil }.
ResetBlock(buffer) == [i \in 1..Len(buffer) |-> Nil]

\* One iteration of ProxyFromVPNToTun's loop: ipconn.ReadPacket returns the next frame.
ProxyFromVPNToTun ==
  /\ mode = "pump"
  /\ Len(tunnel) > 0
  /\ tunnel' = Tail(tunnel)
  /\ LET packetData     == Head(tunnel)
         totalBlockSize == TotalBlockSize(fecConfig)
     IN  IF Len(packetData) < 4
         THEN UNCHANGED <<currentBlockID, blockBuffer, receivedIndices, tunOut, decodeCalls>>
         ELSE LET seq          == Uint32(packetData)
                  payload      == SubSeq(packetData, 5, Len(packetData))
                  blockID      == seq \div totalBlockSize
                  indexInBlock == seq % totalBlockSize
                  newBlock     == blockID # currentBlockID
                  flush        == IF newBlock /\ currentBlockID # InvalidBlockID
                                  THEN recoverAndWriteBlock(fecConfig, blockBuffer,
                                                            receivedIndices, currentBlockID)
                                  ELSE [writes |-> <<>>, decodes |-> 0]
                  buffer       == IF newBlock THEN ResetBlock(blockBuffer) ELSE blockBuffer
                  indices      == IF newBlock THEN <<>> ELSE receivedIndices
                  stored       == indexInBlock < Len(buffer)
              IN  /\ currentBlockID' = blockID
                  /\ blockBuffer' = IF stored THEN [buffer EXCEPT ![indexInBlock + 1] = payload]
                                    ELSE buffer
                  /\ receivedIndices' = IF stored THEN Append(indices, indexInBlock) ELSE indices
                  /\ decodeCalls' = decodeCalls + flush.decodes
                  /\ tunOut' = tunOut \o flush.writes \o
                               (IF indexInBlock < fecConfig.BlockSize
                                THEN <<[pkt |-> payload, via |-> "direct", block |-> blockID,
                                        idx |-> indexInBlock]>>
                                ELSE <<>>)
  /\ UNCHANGED <<mode, serverVars, lockVars, connVars, calcVars, demuxVars, exitVars, fecConfig, codecVars, tunIn, tunRead, seqNum, blocks,
                 dropSeqs>>

NextPump ==
  \/ \E n \in 1..MaxRead : ProxyFromTunToVPN(n)
  \/ ProxyFromVPNToTun

SpecPump == InitPump /\ [][NextPump]_vars

\* The packets written to the receiver's TUN, in order.
Written == [k \in 1..Len(tunOut) |-> tunOut[k].pkt]

IsPrefix(s, u) == Len(s) <= Len(u) /\ SubSeq(u, 1, Len(s)) = s

\* C6: over a tunnel that drops nothing, however the sender's reads are split, the
\* receiver writes exactly the packets the sender read, in order (what is written is
\* always a prefix of what was read, and all of it once nothing is in flight), writes
\* no redundancy packet and never invokes recovery.
C6_LosslessDelivery ==
  (mode = "pump" /\ dropSeqs = {}) =>
    /\ IsPrefix(Written, tunRead)
    /\ Len(tunnel) = 0 => Written = tunRead
    /\ decodeCalls = 0

\* Scenario S3: block_size 10, redundancy_percent 10; the first packet buffer sent
\* holds ten data packets (seq 0..9, redundancy seq 10); the transport drops seq 2.
S3 ==
  /\ mode = "pump" /\ fecConfig = ScenarioConfig /\ dropSeqs = {2}
  /\ Len(blocks) >= 1 /\ blocks[1] = 10

\* P[2] has been written to the receiver's TUN.
P2Written == \E k \in 1..Len(tunOut) : tunOut[k].pkt = P(2)

\* The receiver holds the redundancy packet (seq=10) of the first block.
RedundancyReceived ==
  /\ currentBlockID = 0
  /\ \E k \in 1..Len(receivedIndices) : receivedIndices[k] = 10

\* C9 as stated: in S3, where one block of ten data packets is all the sender
\* transmits, once the redundancy packet (seq=10) has been received P[2] is written to
\* the TUN: at the latest when the pumps have come to rest, with nothing left to read
\* and nothing in flight.
C9_RecoveredOnRedundancy ==
  (S3 /\ RedundancyReceived /\ Len(tunIn) = 0 /\ Len(tunnel) = 0) => P2Written

\* The writes of the receiver for the first block, in order.
FirstBlockWrites == SelectSeq(tunOut, LAMBDA w : w.block = 0)

\* C9 amended: in S3, P[2] is written through block recovery when the first packet of
\* a later block is received, after P[0], P[1], P[3..9]; until then, with the
\* redundancy packet received or not, P[2] is not written.
C9_RecoveredOnNextBlock ==
  S3 =>
    /\ currentBlockID \in {InvalidBlockID, 0} => ~P2Written
    /\ currentBlockID >= 1 =>
         /\ Len(FirstBlockWrites) = 10
         /\ [k \in 1..10 |-> FirstBlockWrites[k].pkt]
              = <<P(0), P(1), P(3), P(4), P(5), P(6), P(7), P(8), P(9), P(2)>>
         /\ FirstBlockWrites[10].via = "recovered"
         /\ \A k \in 1..9 : FirstBlockWrites[k].via = "direct"
         /\ \A k \in 1..Len(tunOut) : tunOut[k].pkt = P(2) => tunOut[k] = FirstBlockWrites[10]

\* In S3 the first packet of the second block has arrived and P[2] was recovered.
C9_Witness ==
  /\ S3 /\ currentBlockID = 1 /\ decodeCalls = 1
  /\ \E k \in 1..Len(tunOut) : tunOut[k].pkt = P(2) /\ tunOut[k].via = "recovered"

\* Scenario S4: as S3, but the transport drops seq 2 and seq 3.
S4 ==
  /\ mode = "pump" /\ fecConfig = ScenarioConfig /\ dropSeqs = {2, 3}
  /\ Len(blocks) >= 1 /\ blocks[1] = 10

\* C10: in S4 neither P[2] nor P[3] is ever written to the receiver's TUN, by a direct
\* write or by recovery, and P[0], P[1], P[4..9] are written in that order.
C10_DoubleLossDrop ==
  S4 =>
    /\ \A k \in 1..Len(tunOut) :
         /\ tunOut[k].pkt \notin {P(2), P(3)}
         /\ ~(tunOut[k].block = 0 /\ tunOut[k].idx \in {2, 3})
    /\ IsPrefix([k \in 1..Len(FirstBlockWrites) |-> FirstBlockWrites[k].pkt],
                <<P(0), P(1), P(4), P(5), P(6), P(7), P(8), P(9)>>)
    /\ (currentBlockID >= 1 \/ Len(receivedIndices) = 9) => Len(FirstBlockWrites) = 8

\* In S4 the block was flushed: recovery ran and wrote nothing, the eight surviving
\* packets are written.
C10_Witness ==
  /\ S4 /\ currentBlockID = 1 /\ decodeCalls = 1
  /\ Len(FirstBlockWrites) = 8

(***************************************************************************)
(* C11: two losses in one block.                                           *)
(***************************************************************************)

\* The error XORDecoder.Decode returns: both of its return statements return nil.
DecodeErr(config, packets, lostIndices) ==
  IF Len(lostIndices) = 0 THEN "nil" ELSE "nil"

\* Two lost indices fall into the same block of BlockSize positions.
SameBlockLoss ==
  /\ Len(lost) = 2
  /\ lost[1] \div fecConfig.BlockSize = lost[2] \div fecConfig.BlockSize

\* C11: double-loss non-recovery: for every batch of two or more packets, when two
\* indices of the same block are lost, Decode returns nil at every lost index of
\* that block and reports no error.
C11_DoubleLossNoRecovery ==
  (cpc = "decoded" /\ Len(batch) >= 2 /\ SameBlockLoss) =>
    /\ Len(decoded) = Len(encoded)
    /\ \A k \in 1..Len(lost) : decoded[lost[k] + 1] = Nil
    /\ DecodeErr(fecConfig, Received(encoded, lost), lost) = "nil"

\* Two packets of one block of the batch were lost while the redundancy packets
\* arrived, and Decode has returned.
C11_Witness ==
  /\ cpc = "decoded" /\ Len(batch) >= 2 /\ SameBlockLoss
  /\ lost[1] < Len(batch) /\ lost[2] < Len(batch)
  /\ Len(encoded) > Len(batch)
  /\ fecConfig.BlockSize >= 2

(***************************************************************************)
(* C12: what Encode returns.                                               *)
(***************************************************************************)

\* numBlocks of Encode for the batch.
NumBlocks == (Len(batch) + fecConfig.BlockSize - 1) \div fecConfig.BlockSize

\* packets[blockStart:blockEnd] of Encode for block b (0-based) of the batch.
BlockPackets(b) ==
  SubSeq(batch, b * fecConfig.BlockSize + 1,
         Min((b + 1) * fecConfig.BlockSize, Len(batch)))

\* A packet followed by zero bytes up to n bytes.
ZeroPadded(pkt, n) == [i \in 1..n |-> IF i <= Len(pkt) THEN pkt[i] ELSE 0]

\* The bytewise XOR of the packets, each zero-padded to n bytes.
RECURSIVE XorPadded(_, _)
XorPadded(packets, n) ==
  IF packets = <<>> THEN [i \in 1..n |-> 0]
  ELSE LET rest == XorPadded(Tail(packets), n)
           head == ZeroPadded(Head(packets), n)
       IN  [i \in 1..n |-> BXor(head[i], rest[i])]

\* The header of a redundancy packet: [n][len_1 hi, len_1 lo]...[len_n hi, len_n lo].
RECURSIVE LengthHeader(_)
LengthHeader(packets) ==
  IF packets = <<>> THEN <<>>
  ELSE <<Len(Head(packets)) \div 256, Len(Head(packets)) % 256>> \o LengthHeader(Tail(packets))

\* The redundancy packet of a block: header, then the XOR padded to the longest packet.
RedundancyOf(packets) ==
  <<Len(packets)>> \o LengthHeader(packets)
                   \o XorPadded(packets, MaxLenFrom(packets, 1, 0))

\* The redundancy packets of blocks b.. in block order; with skipEmpty, a block whose
\* packets all have no bytes contributes none.
RECURSIVE RedundancyFrom(_, _)
RedundancyFrom(b, skipEmpty) ==
  IF b >= NumBlocks THEN <<>>
  ELSE (IF skipEmpty /\ MaxLenFrom(BlockPackets(b), 1, 0) = 0
        THEN <<>> ELSE <<RedundancyOf(BlockPackets(b))>>)
       \o RedundancyFrom(b + 1, skipEmpty)

\* Encode has returned for a non-empty batch with a redundancy count above 0.
EncodedWithRedundancy ==
  /\ cpc # "start" /\ Len(batch) > 0
  /\ CalculateRedundancyPackets(fecConfig, Len(batch)) > 0

C13_EncodeCount ==
  (cpc # "start" /\ Len(batch) > 0) =>
    /\ Len(encoded) = Len(batch) + CalculateRedundancyPackets(fecConfig, Len(batch))
    /\ SubSeq(encoded, 1, Len(batch)) = batch

(***************************************************************************)
(* The server's TUN demultiplexer: Server.processPackets of server.go and  *)
(* of metrics.go, and masque_handler.go's per-session proxyTunToClient.    *)
(***************************************************************************)

\* The longest sequence of packets waiting on the server's TUN.
MaxTunLen == 4

\* An IPv4 header to dst whose second byte is tag.
IPv4Packet(dst, tag) ==
  [i \in 1..20 |-> IF i = 1 THEN 69 ELSE IF i = 2 THEN tag
                   ELSE IF i >= 17 THEN dst[i - 16] ELSE 0]

\* common.GetIPAddresses, its destination: [ok, dst].
GetIPAddresses(packet, length) ==
  IF length < 20 THEN [ok |-> FALSE, dst |-> <<>>]
  ELSE LET version == packet[1] \div 16
       IN  IF version = 4 THEN [ok |-> TRUE, dst |-> SubSeq(packet, 17, 20)]
           ELSE IF version = 6
           THEN IF length < 40 THEN [ok |-> FALSE, dst |-> <<>>]
                ELSE [ok |-> TRUE, dst |-> SubSeq(packet, 25, 40)]
           ELSE [ok |-> FALSE, dst |-> <<>>]

\* common.GetDestinationIP.
GetDestinationIP(packet, length) == GetIPAddresses(packet, length)

\* Server.parseDestinationIP of metrics.go.
parseDestinationIP(packet) ==
  IF Len(packet) < 20 THEN [ok |-> FALSE, dst |-> <<>>]
  ELSE LET version == packet[1] \div 16
       IN  IF version = 4 THEN [ok |-> TRUE, dst |-> SubSeq(packet, 17, 20)]
           ELSE IF version = 6
           THEN IF Len(packet) < 40 THEN [ok |-> FALSE, dst |-> <<>>]
                ELSE [ok |-> TRUE, dst |-> SubSeq(packet, 25, 40)]
           ELSE [ok |-> FALSE, dst |-> <<>>]

\* The assign_cidr and the FEC configuration of the demultiplexer runs.
DemuxCIDR == [addr |-> ip4(10, 0, 0, 0), bits |-> 30]
DemuxConfig == [BlockSize |-> 2, RedundancyPercent |-> 50]

\* The clients whose sessions are established, in the order they connected.
DemuxClients == <<"c1", "c2">>

\* The pool and the maps after the first k clients connected through the handler.
RECURSIVE Established(_)
Established(k) ==
  IF k = 0
  THEN [pool |-> New(DemuxCIDR), clients |-> EmptyMap, conns |-> EmptyMap]
  ELSE LET before == Established(k - 1)
           got    == Allocate(before.pool, DemuxClients[k])
       IN  [pool    |-> got.pool,
            clients |-> MapPut(before.clients, DemuxClients[k], got.ip),
            conns   |-> MapPut(before.conns, got.ip, k)]

\* The packets the server's TUN delivers as its i-th: to the first and the second
\* address of the pool, to an address outside it, one shorter than an IPv4 header,
\* one of IP version 5, and an IPv6 header cut to 20 bytes.
TunPackets(i) ==
  LET a == nextIP(nextIP(Masked(DemuxCIDR).addr))
  IN  {IPv4Packet(a, i), IPv4Packet(nextIP(a), i), IPv4Packet(ip4(10, 0, 0, 9), i),
       <<69, i, 0>>,
       [IPv4Packet(a, i) EXCEPT ![1] = 85],
       [IPv4Packet(a, i) EXCEPT ![1] = 96]}

\* What can wait on the server's TUN: n packets, the i-th one of TunPackets(i).
RECURSIVE TunInputs(_)
TunInputs(n) ==
  IF n = 0 THEN {<<>>}
  ELSE {Append(q, p) : q \in TunInputs(n - 1), p \in TunPackets(n)}

\* session.Encoder: server.go's handler creates it when FEC is enabled,
\* masque_handler.go's leaves it nil.
HasEncoder == build = "vpn" /\ FecEnabled

InitDemux ==
  /\ mode = "demux"
  /\ build \in {"vpn", "masque"}
  /\ processor \in {"server.go", "metrics.go"}
  /\ build = "masque" => processor = "metrics.go"
  /\ FecEnabled \in BOOLEAN
  /\ fecConfig = DemuxConfig
  /\ \E k \in 0..Len(DemuxClients) :
       LET st == Established(k)
       IN  /\ IPPool = st.pool
           /\ ClientIPMap = st.clients
           /\ IPConnMap = st.conns
           /\ holder = st.conns
           /\ nsess = k
           /\ sess = [s \in Sessions |->
                        IF s <= k
                        THEN [pc |-> "pump", client |-> DemuxClients[s],
                              addr |-> st.clients[DemuxClients[s]], closed |-> FALSE,
                              killed |-> "no"]
                        ELSE NoSession]
  /\ registry = Registry
  /\ adminRel = {} /\ stray = [s \in 0..MaxSessions |-> 0] /\ lastStatus = 0
  /\ running = [s \in Sessions |-> IF s <= nsess THEN PumpsPerSession ELSE 0]
  /\ run = "serving"
  /\ poolRet = [ok |-> TRUE, ip |-> <<>>]
  /\ IdleCodec /\ IdlePump /\ IdleExit /\ IdleLock /\ IdleConn /\ IdleCalc
  /\ serverTun \in TunInputs(MaxTunLen)
  /\ PacketBuffer = [s \in Sessions |-> <<>>]
  /\ SeqNum = [s \in Sessions |-> 0]
  /\ connOut = [s \in Sessions |-> <<>>]
  /\ handed = [s \in Sessions |-> <<>>]

\* Server.encodeAndSendBlock of metrics.go: the encoded packets are written as they
\* are, and SeqNum counts them.
Server_encodeAndSendBlock(config, packets, seq) ==
  LET enc == Encode(config, packets)
  IN  [frames |-> enc, seqNum |-> seq + Len(enc)]

\* The send path of session s in processPackets of server.go: with FEC the packet is
\* buffered and a full buffer goes through common.EncodeAndSendBlock; without, it is
\* written as it is.
SendPath(s, packet) ==
  /\ handed' = [handed EXCEPT ![s] = Append(@, packet)]
  /\ IF FecEnabled
     THEN LET buffer == Append(PacketBuffer[s], packet)
          IN  IF Len(buffer) >= fecConfig.BlockSize
              THEN LET out == EncodeAndSendBlock(fecConfig, buffer, SeqNum[s])
                   IN  /\ connOut' = [connOut EXCEPT ![s] = @ \o out.frames]
                       /\ SeqNum' = [SeqNum EXCEPT ![s] = out.seqNum]
                       /\ PacketBuffer' = [PacketBuffer EXCEPT ![s] = <<>>]
              ELSE /\ PacketBuffer' = [PacketBuffer EXCEPT ![s] = buffer]
                   /\ UNCHANGED <<connOut, SeqNum>>
     ELSE /\ connOut' = [connOut EXCEPT ![s] = Append(@, packet)]
          /\ UNCHANGED <<PacketBuffer, SeqNum>>

\* Server.forwardPacketToClient of metrics.go, with forwardPacketWithFEC.
forwardPacketToClient(s, packet) ==
  /\ handed' = [handed EXCEPT ![s] = Append(@, packet)]
  /\ IF FecEnabled
     THEN LET buffer == Append(PacketBuffer[s], packet)
          IN  IF HasEncoder /\ Len(buffer) >= fecConfig.BlockSize
              THEN LET out == Server_encodeAndSendBlock(fecConfig, buffer, SeqNum[s])
                   IN  /\ connOut' = [connOut EXCEPT ![s] = @ \o out.frames]
                       /\ SeqNum' = [SeqNum EXCEPT ![s] = out.seqNum]
                       /\ PacketBuffer' = [PacketBuffer EXCEPT ![s] = <<>>]
              ELSE /\ PacketBuffer' = [PacketBuffer EXCEPT ![s] = buffer]
                   /\ UNCHANGED <<connOut, SeqNum>>
     ELSE /\ connOut' = [connOut EXCEPT ![s] = Append(@, packet)]
          /\ UNCHANGED <<PacketBuffer, SeqNum>>

\* One iteration of Server.processPackets: the next TUN packet is read, its
\* destination looked up in IPConnMap, and the packet handed to that session or dropped.
processPackets ==
  /\ mode = "demux"
  /\ Len(serverTun) > 0
  /\ serverTun' = Tail(serverTun)
  /\ LET packet == Head(serverTun)
         dest   == IF processor = "server.go"
                   THEN GetDestinationIP(packet, Len(packet))
                   ELSE parseDestinationIP(packet)
     IN  IF dest.ok /\ dest.dst \in DOMAIN IPConnMap
         THEN IF processor = "server.go"
              THEN SendPath(IPConnMap[dest.dst], packet)
              ELSE forwardPacketToClient(IPConnMap[dest.dst], packet)
         ELSE UNCHANGED <<PacketBuffer, SeqNum, connOut, handed>>
  /\ UNCHANGED <<mode, serverVars, lockVars, connVars, calcVars, exitVars, fecConfig, codecVars, pumpVars, processor, FecEnabled>>

\* One iteration of proxyTunToClient of session s: the next TUN packet is read and
\* written to the session's connection if its destination is the session's address.
proxyTunToClient(s) ==
  /\ mode = "demux" /\ build = "masque"
  /\ sess[s].pc = "pump"
  /\ Len(serverTun) > 0
  /\ serverTun' = Tail(serverTun)
  /\ LET packet == Head(serverTun)
         dest   == parseDestinationIP(packet)
     IN  IF dest.ok /\ dest.dst = sess[s].addr
         THEN /\ connOut' = [connOut EXCEPT ![s] = Append(@, packet)]
              /\ handed' = [handed EXCEPT ![s] = Append(@, packet)]
         ELSE UNCHANGED <<connOut, handed>>
  /\ UNCHANGED <<mode, serverVars, lockVars, connVars, calcVars, exitVars, fecConfig, codecVars, pumpVars, processor, FecEnabled,
                 PacketBuffer, SeqNum>>

NextDemux ==
  \/ processPackets
  \/ \E s \in Sessions : proxyTunToClient(s)

SpecDemux == InitDemux /\ [][NextDemux]_vars

\* The packet a step of the demultiplexer reads, and its destination.
ReadPacket == Head(serverTun)
Destination == GetDestinationIP(ReadPacket, Len(ReadPacket))

\* C15: destination routing: every packet read from the server TUN whose destination
\* is the key of a session in the table is handed to that session's send path and to
\* no other; a packet whose destination is not in the table, or whose header is too
\* short or of an unknown IP version, is dropped with no tunnel write and no change
\* to pool or table.
C15_DestinationRouting ==
  [][(mode = "demux" /\ serverTun' # serverTun) =>
       IF Destination.ok /\ Destination.dst \in DOMAIN IPConnMap
       THEN handed' = [handed EXCEPT ![IPConnMap[Destination.dst]] = Append(@, ReadPacket)]
       ELSE /\ handed' = handed /\ connOut' = connOut
            /\ IPPool' = IPPool /\ ClientIPMap' = ClientIPMap /\ IPConnMap' = IPConnMap]_vars

\* C14: sequence monotonicity: with FEC enabled, the k-th packet written to a
\* session's tunnel is framed [seq: u32 big-endian][payload] with seq = k - 1: the
\* first has seq 0 and each following one a seq one greater than the one before.
C14_SequenceMonotonic ==
  (mode = "demux" /\ FecEnabled) =>
    \A s \in Sessions : \A k \in 1..Len(connOut[s]) :
      /\ Len(connOut[s][k]) >= 4
      /\ SubSeq(connOut[s][k], 1, 4) = PutUint32(k - 1)

(***************************************************************************)
(* How the pumps end: the terminal value each writes to errChan.           *)
(***************************************************************************)

\* The pumps, and the pumps each caller starts on one error channel.
PumpNames == {"ProxyFromTunToVPN", "ProxyFromVPNToTun"}
PumpsOf(caller) == IF caller = "client" THEN PumpNames ELSE {"ProxyFromVPNToTun"}

\* The capacity of Server.handleClientConnection's error channel: make(chan error, 1).
ServerErrChanCap == 1

\* make(chan error, n) of the caller: 2 in vpn_client's main.
ErrChanCap_One(caller) == ServerErrChanCap
ErrChanCap(caller) == IF caller = "client" THEN 2 ELSE ServerErrChanCap

\* The errors an I/O call of a pump returns.
ErrKinds == {"io.EOF", "net.ErrClosed", "os.ErrClosed", "net.OpError",
             "quic.ApplicationError", "tun.ErrTooManySegments", "other"}

\* The I/O calls of each pump's loop.
OpsOf(p) == IF p = "ProxyFromTunToVPN" THEN {"dev.Read", "ipconn.WritePacket"}
            ELSE {"ipconn.ReadPacket", "dev.WritePacket"}

\* isNetworkClosed of proxy.go.
isNetworkClosed(err) ==
  err \in {"io.EOF", "net.ErrClosed", "net.OpError", "quic.ApplicationError"}

\* errors.Is(err, os.ErrClosed) || errors.Is(err, net.ErrClosed).
IsErrClosed(err) == err \in {"os.ErrClosed", "net.ErrClosed"}

\* What a pump does when the I/O call op of its loop returns err: "continue", or the
\* terminal value it writes to errChan before it returns.
OnError(p, fec, op, err) ==
  IF op = "dev.Read"
  THEN IF IsErrClosed(err) THEN "nil"
       ELSE IF err = "tun.ErrTooManySegments" THEN "continue" ELSE "error"
  ELSE IF op = "dev.WritePacket"
  THEN IF fec THEN "continue"
       ELSE IF IsErrClosed(err) THEN "nil" ELSE "error"
  ELSE IF isNetworkClosed(err) THEN "nil" ELSE "error"

NoPump == [pc |-> "absent", val |-> "none", op |-> "none", err |-> "none", writes |-> 0]

\* The FEC configurations handed to the pumps: a valid one and one NewXOREncoder rejects.
ExitConfigs == {ScenarioConfig, [BlockSize |-> 0, RedundancyPercent |-> 10]}

InitExit ==
  /\ mode = "exit"
  /\ build = "vpn"
  /\ IPPool = New(DemuxCIDR)
  /\ InitServerState
  /\ poolRet = [ok |-> TRUE, ip |-> <<>>]
  /\ IdleCodec /\ IdlePump /\ IdleLock /\ IdleConn /\ IdleCalc
  /\ processor = "server.go" /\ serverTun = <<>>
  /\ PacketBuffer = <<>> /\ SeqNum = <<>> /\ connOut = <<>> /\ handed = <<>>
  /\ FecEnabled \in BOOLEAN
  /\ fecConfig \in ExitConfigs
  /\ site \in {"client", "server"}
  /\ pumpState = [p \in PumpNames |->
                    IF p \in PumpsOf(site) THEN [NoPump EXCEPT !.pc = "setup"] ELSE NoPump]
  /\ errChan = <<>>
  /\ callerPc = "wait"

\* The FEC setup of a pump: a configuration NewXOREncoder / NewXORDecoder rejects
\* ends the pump with an error.
PumpSetup(p) ==
  /\ mode = "exit"
  /\ pumpState[p].pc = "setup"
  /\ pumpState' = [pumpState EXCEPT ![p] =
                     IF FecEnabled /\ ~Validate(fecConfig)
                     THEN [@ EXCEPT !.pc = "send", !.val = "error", !.op = "fec.New"]
                     ELSE [@ EXCEPT !.pc = "loop"]]
  /\ UNCHANGED <<mode, serverVars, lockVars, connVars, calcVars, fecConfig, codecVars, pumpVars, demuxVars,
                 site, errChan, callerPc>>

\* An I/O call of the pump's loop fails: the pump goes on, or is about to write its
\* terminal value.
PumpError(p, op, err) ==
  /\ mode = "exit"
  /\ pumpState[p].pc = "loop"
  /\ op \in OpsOf(p)
  /\ LET outcome == OnError(p, FecEnabled, op, err)
     IN  pumpState' = [pumpState EXCEPT ![p] =
                         IF outcome = "continue" THEN [@ EXCEPT !.op = op, !.err = err]
                         ELSE [@ EXCEPT !.pc = "send", !.val = outcome,
                                        !.op = op, !.err = err]]
  /\ UNCHANGED <<mode, serverVars, lockVars, connVars, calcVars, fecConfig, codecVars, pumpVars, demuxVars,
                 site, errChan, callerPc>>

\* errChan <- value; return.  The send waits while the channel is full.
PumpSend(p) ==
  /\ mode = "exit"
  /\ pumpState[p].pc = "send"
  /\ Len(errChan) < ErrChanCap(site)
  /\ errChan' = Append(errChan, pumpState[p].val)
  /\ pumpState' = [pumpState EXCEPT ![p].pc = "returned", ![p].writes = @ + 1]
  /\ UNCHANGED <<mode, serverVars, lockVars, connVars, calcVars, fecConfig, codecVars, pumpVars, demuxVars,
                 site, callerPc>>

\* The caller takes the first value from errChan (the client also leaves its select
\* on ctx.Done()), then closes the connection (and the client the TUN device).
CallerReceive ==
  /\ mode = "exit"
  /\ callerPc = "wait"
  /\ \/ /\ Len(errChan) > 0
        /\ errChan' = Tail(errChan)
     \/ /\ site = "client"
        /\ UNCHANGED errChan
  /\ callerPc' = "closing"
  /\ UNCHANGED <<mode, serverVars, lockVars, connVars, calcVars, fecConfig, codecVars, pumpVars, demuxVars,
                 site, pumpState>>

\* wg.Wait() of the caller returns.
CallerWait ==
  /\ mode = "exit"
  /\ callerPc = "closing"
  /\ \A p \in PumpsOf(site) : pumpState[p].pc = "returned"
  /\ callerPc' = "done"
  /\ UNCHANGED <<mode, serverVars, lockVars, connVars, calcVars, fecConfig, codecVars, pumpVars, demuxVars,
                 site, pumpState, errChan>>

NextExit ==
  \/ \E p \in PumpNames : PumpSetup(p)
  \/ \E p \in PumpNames, op \in {"dev.Read", "ipconn.WritePacket", "ipconn.ReadPacket",
                                 "dev.WritePacket"}, err \in ErrKinds : PumpError(p, op, err)
  \/ \E p \in PumpNames : PumpSend(p)
  \/ CallerReceive
  \/ CallerWait

SpecExit == InitExit /\ [][NextExit]_vars

\* The failed call was on the tunnel and the tunnel is closed, or on the TUN device
\* and the device is closed.
ClosedCause(op, err) ==
  \/ op \in {"ipconn.WritePacket", "ipconn.ReadPacket"}
     /\ err \in {"io.EOF", "net.ErrClosed", "net.OpError", "quic.ApplicationError"}
  \/ op \in {"dev.Read", "dev.WritePacket"}
     /\ err \in {"os.ErrClosed", "net.ErrClosed"}

HandlerReturned(s) == sess[s].pc \in {"none", "done", "failed"}

\* C17: cancellation completeness: once Server.Run has returned after the shutdown
\* signal, both pumps of every session and every session handler have returned and
\* no IPPool slot remains allocated.
C17_CancellationComplete ==
  (mode = "server" /\ run = "exited") =>
    /\ \A s \in Sessions : running[s] = 0 /\ HandlerReturned(s)
    /\ DOMAIN IPPool.allocated = {}

\* Session s is in the session table.
InTable(s) == sess[s].addr \in DOMAIN IPConnMap /\ IPConnMap[sess[s].addr] = s

\* This step removes session s from the session table.
Removed(s) ==
  /\ InTable(s)
  /\ ~(sess[s].addr \in DOMAIN IPConnMap' /\ IPConnMap'[sess[s].addr] = s)

\* This step releases the pool slot allocated for session s.
SlotReleased(s) ==
  /\ sess[s].addr \in DOMAIN holder /\ holder[sess[s].addr] = s
  /\ sess[s].addr \in DOMAIN IPPool.allocated
  /\ sess[s].addr \notin DOMAIN IPPool'.allocated

\* C18: teardown order: when a session is removed from the table its pumps have
\* exited, and when its pool slot is released the session is no longer in the table.
C18_TeardownOrder ==
  [][\A s \in Sessions :
       /\ Removed(s) => running[s] = 0
       /\ SlotReleased(s) =>
            ~(sess[s].addr \in DOMAIN IPConnMap' /\ IPConnMap'[sess[s].addr] = s)]_vars

\* A CONNECT-IP request the handler accepts, from a client that holds no address.
NewClientRequest(r) ==
  /\ r.cert /\ r.cn \in registry /\ r.masque /\ r.method = "CONNECT"
  /\ r.cn \notin DOMAIN ClientIPMap

\* C19: scenario S5: with assign_cidr a /30 exactly one address is assignable: a
\* client's request made while no address is held creates a session with that
\* address (the one after the gateway), and a request made while a client holds it
\* is answered with HTTP 500 and creates no session.
C19_ExhaustionScenario ==
  [][\A r \in Requests :
       (/\ mode = "server" /\ IPPool.prefix.bits = 30
        /\ NewClientRequest(r)
        /\ VpnHandler(r) \/ handleMASQUERequest(r)) =>
         IF DOMAIN IPPool.allocated = {}
         THEN /\ nsess' = nsess + 1
              /\ sess'[nsess'].addr = nextIP(IPPool.gateway)
         ELSE /\ lastStatus' = 500
              /\ nsess' = nsess /\ sess' = sess /\ IPPool' = IPPool]_vars

(***************************************************************************)
(* The /30 pool of TestIPPool (common/ip_test.go).                         *)
(***************************************************************************)
\* The pool is over a /30 prefix and its gateway is the address after the network's.
SlashThirtyPool ==
  /\ mode = "pool"
  /\ IPPool.prefix.bits = 30
  /\ Len(IPPool.prefix.addr) = 4
  /\ IPPool.gateway = nextIP(Masked(IPPool.prefix).addr)

\* C20: for a /30 IPv4 prefix whose gateway is network+1 the pool holds two
\* addresses: Allocate succeeds, with an address not yet handed out, exactly while
\* fewer than two are allocated, and once two are allocated the next Allocate fails
\* and Stats reports (total, allocated, available) = (2, 2, 0).
C20_SlashThirtyPool ==
  SlashThirtyPool =>
    /\ Stats(IPPool).total = 2
    /\ Stats(NewIPPool(IPPool.prefix, IPPool.gateway)) =
         [total |-> 2, allocated |-> 0, available |-> 2]
    /\ \A c \in ClientIDs :
         LET got == Allocate(IPPool, c)
         IN  IF Cardinality(DOMAIN IPPool.allocated) < 2
             THEN got.ok /\ got.ip \notin DOMAIN IPPool.allocated
             ELSE /\ ~got.ok
                  /\ Stats(got.pool) = [total |-> 2, allocated |-> 2, available |-> 0]

\* Two Allocate calls have succeeded with distinct addresses and a third has just
\* failed on the exhausted /30 pool.
C20_Witness ==
  /\ SlashThirtyPool
  /\ ~poolRet.ok
  /\ Cardinality(DOMAIN IPPool.allocated) = 2
  /\ Stats(IPPool) = [total |-> 2, allocated |-> 2, available |-> 0]

(***************************************************************************)
(* The order in which the pool hands addresses out.                        *)
(***************************************************************************)
\* C21: lowest-first allocation: a successful Allocate (the one call that shortens
\* the free list) returns the numerically lowest address that was free when it was
\* called.
C21_LowestFirst ==
  [][(mode = "pool" /\ Len(IPPool'.available) < Len(IPPool.available)) =>
       /\ poolRet'.ip \in Range(IPPool.available)
       /\ \A a \in Range(IPPool.available) : Compare(poolRet'.ip, a) <= 0]_vars

(***************************************************************************)
(* Scenario S6: the forced disconnect.                                     *)
(***************************************************************************)
\* Session s was disconnected by the administrative API (either handler).
Disconnected(s) == sess[s].killed # "no"

\* The administrative call and the handler of session s have both run to their end.
Settled(s) ==
  /\ sess[s].pc \in {"done", "failed"}
  /\ \A a \in adminRel : a.sid # s

\* The address session s allocated is still allocated for it.
StillHeld(s) ==
  sess[s].addr \in DOMAIN holder /\ holder[sess[s].addr] = s /\ sess[s].addr \in DOMAIN IPPool.allocated

\* C22: after an administrative disconnect of a connected client its tunnel is closed
\* and, once the administrative call and the session's own teardown have both
\* finished (in whichever order), the address of the session is no longer allocated
\* for it: it is back in the free list.
C22_DisconnectReleases ==
  \A s \in Sessions :
    (mode = "server" /\ Disconnected(s) /\ Settled(s)) =>
      /\ sess[s].closed
      /\ ~StillHeld(s)

\* The sessions created so far for client c.
SessionsOf(c) == {t \in Sessions : t <= nsess /\ sess[t].client = c}

\* Client c's latest session was ended by a forced disconnect, and every session of c
\* is over: the administrative calls and the handlers have run to their end.
ForcedOut(c) ==
  /\ SessionsOf(c) # {}
  /\ \A t \in SessionsOf(c) : Settled(t)
  /\ LET last == CHOOSE t \in SessionsOf(c) : \A u \in SessionsOf(c) : u <= t
     IN  sess[last].killed = "released"
  /\ c \notin DOMAIN ClientIPMap

\* The address client c had in its latest session.
LastAddress(c) ==
  sess[CHOOSE t \in SessionsOf(c) : \A u \in SessionsOf(c) : u <= t].addr

\* The entries of the session table that belong to client c.
EntriesOf(c, connMap) == {a \in DOMAIN connMap : sess'[connMap[a]].client = c}

\* C23: a valid connection from a client whose previous session was ended by a forced
\* disconnect is given the address that client had before, and the session table then
\* holds exactly one address for the client and at most one session of it.
C23_ReconnectSameAddress ==
  [][\A r \in Requests :
       (/\ mode = "server"
        /\ r.cert /\ r.cn \in registry /\ r.masque /\ r.method = "CONNECT"
        /\ ForcedOut(r.cn)
        /\ VpnHandler(r) \/ handleMASQUERequest(r)) =>
         /\ nsess' = nsess + 1
         /\ sess'[nsess'].addr = LastAddress(r.cn)
         /\ r.cn \in DOMAIN ClientIPMap' /\ ClientIPMap'[r.cn] = LastAddress(r.cn)
         /\ Cardinality(EntriesOf(r.cn, IPConnMap')) <= 1]_vars

(***************************************************************************)
(* Release and Allocate at the edges of the pool.                          *)
(***************************************************************************)
\* C24: Release of an address that is not allocated (never allocated, outside the
\* prefix, the gateway, the network address, or already released) leaves the pool as
\* it is; and releasing any address twice has the effect of releasing it once.
C24_ReleaseIdempotent ==
  mode = "pool" =>
    \A ip \in ReleaseInputs(IPPool) :
      /\ ip \notin DOMAIN IPPool.allocated => Release(IPPool, ip) = IPPool
      /\ Release(Release(IPPool, ip), ip) = Release(IPPool, ip)
      /\ ip \in DOMAIN IPPool.allocated =>
           /\ Release(IPPool, ip).available = Append(IPPool.available, ip)
           /\ ip \notin DOMAIN Release(IPPool, ip).allocated

\* An address was allocated and released and now sits at the tail of the free list
\* behind higher ones, while another address is allocated: the released address, the
\* gateway, the network address and an address outside the prefix are all not
\* allocated, and one address is.
C24_Witness ==
  /\ mode = "pool"
  /\ Len(IPPool.available) >= 2
  /\ Compare(IPPool.available[Len(IPPool.available)], IPPool.available[1]) < 0
  /\ Cardinality(DOMAIN IPPool.allocated) = 1
  /\ IPPool.gateway \in ReleaseInputs(IPPool)
  /\ \E ip \in ReleaseInputs(IPPool) : ~Contains(IPPool.prefix, ip)
  /\ poolRet.ok /\ poolRet.ip \in DOMAIN IPPool.allocated

\* C25: Allocate fails exactly when the free list is empty, and a failed Allocate
\* changes neither the free list nor the allocated map.
C25_AllocateExhausted ==
  [][\A c \in ClientIDs :
       (mode = "pool" /\ PoolAllocate(c)) =>
         /\ poolRet'.ok <=> Len(IPPool.available) # 0
         /\ ~poolRet'.ok => IPPool' = IPPool
         /\ Allocate(IPPool, c).ok <=> Len(IPPool.available) # 0]_vars

\* Allocate has just failed on a pool of more than two addresses, all of them allocated.
C25_Witness ==
  /\ mode = "pool"
  /\ ~poolRet.ok
  /\ Len(IPPool.available) = 0
  /\ Cardinality(DOMAIN IPPool.allocated) > 2

(***************************************************************************)
(* The admission checks of the request handler.                            *)
(***************************************************************************)
\* The step of the handler that answers request r, in either build.
Handles(r) == VpnHandler(r) \/ handleMASQUERequest(r)

\* C26: a session is created (an address allocated, table entries inserted) only for
\* a request that presented a client certificate whose Common-Name is in the client
\* registry and that is a MASQUE request; any other request leaves the pool and the
\* session table unchanged.
C26_AdmissionGuards ==
  [][\A r \in Requests :
       (mode = "server" /\ Handles(r)) =>
         IF r.cert /\ r.cn \in registry /\ r.masque
         THEN TRUE
         ELSE /\ nsess' = nsess /\ sess' = sess
              /\ IPPool' = IPPool
              /\ ClientIPMap' = ClientIPMap /\ IPConnMap' = IPConnMap]_vars

\* C27: the handler checks, in this order, the client certificate, the registry
\* membership of its Common-Name and the MASQUE headers, and the first check that
\* fails decides the status: 401, 401, 400.
C27_CheckOrder ==
  [][\A r \in Requests :
       (mode = "server" /\ r.method = "CONNECT" /\ Handles(r)) =>
         /\ ~r.cert => lastStatus' = 401
         /\ (r.cert /\ r.cn \notin registry) => lastStatus' = 401
         /\ (r.cert /\ r.cn \in registry /\ ~r.masque) => lastStatus' = 400]_vars

(***************************************************************************)
(* The send path of one session under ClientSession.Mu, step by step, with *)
(* concurrent callers (server.go processPackets from session.Mu.Lock() on; *)
(* metrics.go forwardPacketToClient).                                      *)
(***************************************************************************)
\* How many packets each caller hands to the send path at most.
MaxSends == 2

\* The goroutines calling the send path of the session at the same time.
Senders == {1, 2}

\* The session whose send path is observed: the first one established.
LockSession == 1

\* The packets sender c hands over: n packets, told apart by their bytes.
SendList(c, n) == [k \in 1..n |-> <<c, k>>]

NoSender == [pc |-> "idle", todo |-> <<>>, pending |-> <<>>, hold |-> 0]

InitLock ==
  /\ mode = "lock"
  /\ build = "vpn"
  /\ processor \in {"server.go", "metrics.go"}
  /\ FecEnabled \in BOOLEAN
  /\ fecConfig = DemuxConfig
  /\ LET st == Established(1)
     IN  /\ IPPool = st.pool
         /\ ClientIPMap = st.clients
         /\ IPConnMap = st.conns
         /\ holder = st.conns
         /\ nsess = 1
         /\ sess = [s \in Sessions |->
                      IF s = LockSession
                      THEN [pc |-> "pump", client |-> DemuxClients[s],
                            addr |-> st.clients[DemuxClients[s]], closed |-> FALSE,
                            killed |-> "no"]
                      ELSE NoSession]
  /\ registry = Registry
  /\ adminRel = {} /\ stray = [s \in 0..MaxSessions |-> 0] /\ lastStatus = 0
  /\ running = [s \in Sessions |-> IF s = LockSession THEN PumpsPerSession ELSE 0]
  /\ run = "serving"
  /\ poolRet = [ok |-> TRUE, ip |-> <<>>]
  /\ serverTun = <<>>
  /\ PacketBuffer = [s \in Sessions |-> <<>>]
  /\ SeqNum = [s \in Sessions |-> 0]
  /\ connOut = [s \in Sessions |-> <<>>]
  /\ handed = [s \in Sessions |-> <<>>]
  /\ Mu = 0
  /\ \E n \in [Senders -> 0..MaxSends] :
       senders = [c \in Senders |-> [NoSender EXCEPT !.todo = SendList(c, n[c])]]
  /\ written = <<>>
  /\ IdleCodec /\ IdlePump /\ IdleExit /\ IdleConn /\ IdleCalc

\* What no step of the send path changes.
LockFrame ==
  UNCHANGED <<mode, serverVars, exitVars, connVars, calcVars, fecConfig, codecVars, pumpVars,
              processor, FecEnabled, serverTun>>

\* A mutex that never makes a caller wait.
MuFree_Always == TRUE

\* sync.Mutex: Lock returns only while no goroutine holds the mutex.
MuFree == Mu = 0

\* The number of the next hold of the mutex.
NextHold ==
  LET held == {senders[c].hold : c \in Senders}
  IN  1 + CHOOSE h \in held : \A g \in held : g <= h

\* The send path takes the session mutex for this packet: forwardPacketWithFEC always,
\* server.go's processPackets always; metrics.go without FEC writes without it.
TakesMu == processor = "server.go" \/ FecEnabled

\* session.Mu.Lock().
Lock(c) ==
  /\ mode = "lock" /\ LockFrame
  /\ senders[c].pc = "idle" /\ senders[c].todo # <<>>
  /\ TakesMu
  /\ MuFree
  /\ Mu' = c
  /\ senders' = [senders EXCEPT ![c].pc = "locked", ![c].hold = NextHold]
  /\ UNCHANGED <<written, PacketBuffer, SeqNum, connOut, handed>>

\* session.PacketBuffer = append(session.PacketBuffer, packet), and the test of the
\* buffer's length; the encoder's Encode when the buffer is full.
AppendPacket(c) ==
  /\ mode = "lock" /\ LockFrame
  /\ senders[c].pc = "locked" /\ FecEnabled
  /\ LET packet == Head(senders[c].todo)
         buffer == Append(PacketBuffer[LockSession], packet)
     IN  /\ PacketBuffer' = [PacketBuffer EXCEPT ![LockSession] = buffer]
         /\ handed' = [handed EXCEPT ![LockSession] = Append(@, packet)]
         /\ IF HasEncoder /\ Len(buffer) >= fecConfig.BlockSize
            THEN senders' = [senders EXCEPT ![c].pc = "send",
                                            ![c].pending = Encode(fecConfig, buffer)]
            ELSE senders' = [senders EXCEPT ![c].pc = "unlock"]
  /\ UNCHANGED <<Mu, written, SeqNum, connOut>>

\* The frame written for an encoded packet: common.EncodeAndSendBlock puts the sequence
\* number in front, Server.encodeAndSendBlock of metrics.go writes the packet as it is.
FrameOf(pkt) ==
  IF processor = "server.go" THEN PutUint32(SeqNum[LockSession]) \o pkt ELSE pkt

\* One WritePacket of the loop over the encoded packets.  A failed write ends the
\* loop: processPackets of server.go then clears the buffer, metrics.go returns.
SendFrame(c) ==
  /\ mode = "lock" /\ LockFrame
  /\ senders[c].pc = "send"
  /\ IF senders[c].pending = <<>>
     THEN /\ senders' = [senders EXCEPT ![c].pc = "clear"]
          /\ UNCHANGED <<connOut, written>>
     ELSE \/ /\ connOut' = [connOut EXCEPT ![LockSession] =
                              Append(@, FrameOf(Head(senders[c].pending)))]
             /\ written' = Append(written, senders[c].hold)
             /\ senders' = [senders EXCEPT ![c].pc = "incr"]
          \/ /\ senders' = [senders EXCEPT ![c].pc =
                              IF processor = "server.go" THEN "clear" ELSE "unlock",
                                           ![c].pending = <<>>]
             /\ UNCHANGED <<connOut, written>>
  /\ UNCHANGED <<Mu, PacketBuffer, SeqNum, handed>>

\* *seqNum++ / session.SeqNum++ after a successful write.
IncrSeqNum(c) ==
  /\ mode = "lock" /\ LockFrame
  /\ senders[c].pc = "incr"
  /\ SeqNum' = [SeqNum EXCEPT ![LockSession] = @ + 1]
  /\ senders' = [senders EXCEPT ![c].pc = "send", ![c].pending = Tail(@)]
  /\ UNCHANGED <<Mu, written, PacketBuffer, connOut, handed>>

\* session.PacketBuffer = session.PacketBuffer[:0].
ClearBuffer(c) ==
  /\ mode = "lock" /\ LockFrame
  /\ senders[c].pc = "clear"
  /\ PacketBuffer' = [PacketBuffer EXCEPT ![LockSession] = <<>>]
  /\ senders' = [senders EXCEPT ![c].pc = "unlock"]
  /\ UNCHANGED <<Mu, written, SeqNum, connOut, handed>>

\* The packet is written as it is (FEC disabled): under the mutex in server.go,
\* without it in metrics.go.  A failed write is logged or returned.
WritePlain(c) ==
  /\ mode = "lock" /\ LockFrame
  /\ ~FecEnabled
  /\ senders[c].todo # <<>>
  /\ IF TakesMu THEN senders[c].pc = "locked" ELSE senders[c].pc = "idle"
  /\ handed' = [handed EXCEPT ![LockSession] = Append(@, Head(senders[c].todo))]
  /\ \/ /\ connOut' = [connOut EXCEPT ![LockSession] = Append(@, Head(senders[c].todo))]
        /\ written' = Append(written, senders[c].hold)
     \/ UNCHANGED <<connOut, written>>
  /\ senders' = IF TakesMu THEN [senders EXCEPT ![c].pc = "unlock"]
                ELSE [senders EXCEPT ![c].todo = Tail(@)]
  /\ UNCHANGED <<Mu, PacketBuffer, SeqNum>>

\* session.Mu.Unlock(); the caller goes on to its next packet.
Unlock(c) ==
  /\ mode = "lock" /\ LockFrame
  /\ senders[c].pc = "unlock"
  /\ Mu' = 0
  /\ senders' = [senders EXCEPT ![c].pc = "idle", ![c].todo = Tail(@)]
  /\ UNCHANGED <<written, PacketBuffer, SeqNum, connOut, handed>>

NextLock ==
  \/ \E c \in Senders : Lock(c)
  \/ \E c \in Senders : AppendPacket(c)
  \/ \E c \in Senders : SendFrame(c)
  \/ \E c \in Senders : IncrSeqNum(c)
  \/ \E c \in Senders : ClearBuffer(c)
  \/ \E c \in Senders : WritePlain(c)
  \/ \E c \in Senders : Unlock(c)

SpecLock == InitLock /\ [][NextLock]_vars

\* The senders that have written a frame and not yet counted it.
Uncounted == {c \in Senders : senders[c].pc = "incr"}

\* C28: one critical section per packet: the frames on the session's tunnel lie in
\* the order of the mutex holds that wrote them, so the packets of two blocks are
\* never interleaved; at most one caller is inside the section; the sequence counter
\* counts the frames written, and the frames common.EncodeAndSendBlock wrote carry the
\* sequence numbers 0, 1, 2, ... without a duplicate or a gap.
C28_BlockCriticalSection ==
  (mode = "lock" /\ FecEnabled) =>
    /\ \A i, j \in 1..Len(written) : i < j => written[i] <= written[j]
    /\ Cardinality({c \in Senders : senders[c].pc # "idle"}) <= 1
    /\ \A c \in Senders : senders[c].pc # "idle" => Mu = c
    /\ SeqNum[LockSession] + Cardinality(Uncounted) = Len(connOut[LockSession])
    /\ processor = "server.go" =>
         \A k \in 1..Len(connOut[LockSession]) :
           SubSeq(connOut[LockSession][k], 1, 4) = PutUint32(k - 1)

\* Both callers have sent a full block each through the same session: the tunnel
\* holds the frames of two holds of the mutex, one block after the other.
C28_Witness ==
  /\ mode = "lock" /\ FecEnabled
  /\ \A c \in Senders : senders[c].todo = <<>> /\ senders[c].pc = "idle"
  /\ Len(connOut[LockSession]) >= 6
  /\ \E i, j \in 1..Len(written) : written[i] # written[j]
  /\ \E i, j \in 1..Len(handed[LockSession]) :
       i < j /\ handed[LockSession][i][1] > handed[LockSession][j][1]

(***************************************************************************)
(* The channel-backed MASQUEConn of the server (common/masque_connectip.go):*)
(* WritePacket -> writeChan -> the linking goroutine -> readChan ->        *)
(* ReadPacket, and Close.                                                  *)
(***************************************************************************)
\* The capacity of readChan and of writeChan (100 in NewMASQUEConnForServer), scaled.
ChanCap == 2

\* How many packets WritePacket accepts in a behaviour at most.
MaxWrites == 4

\* The length of the buffer the callers pass to ReadPacket: make([]byte, 2048).
BufLen == 2048

\* The packets written.
ConnPackets == {<<1>>, <<2, 3>>}

\* Go's copy(dst, src) into a buffer of n bytes: what arrives, min(n, len(src)) bytes.
copy(n, src) == SubSeq(src, 1, IF Len(src) < n THEN Len(src) ELSE n)

NoReturn == [op |-> "none", n |-> 0, err |-> "nil"]

\* NewMASQUEConnForServer: both channels made and empty, the linking goroutine started.
NewMASQUEConnForServer ==
  /\ masqueConn = [closed |-> FALSE, readChan |-> <<>>, writeChan |-> <<>>]
  /\ forwarder = [pc |-> "recv", has |-> FALSE, packet |-> <<>>]

InitConn ==
  /\ mode = "conn"
  /\ build = "masque"
  /\ IPPool = New(DemuxCIDR)
  /\ InitServerState
  /\ poolRet = [ok |-> TRUE, ip |-> <<>>]
  /\ fecConfig = ScenarioConfig
  /\ IdleCodec /\ IdlePump /\ IdleDemux /\ IdleExit /\ IdleLock /\ IdleCalc
  /\ NewMASQUEConnForServer
  /\ writer = [pc |-> "idle", packet |-> <<>>]
  /\ reader = [pc |-> "idle"]
  /\ ret = NoReturn
  /\ accepted = <<>> /\ delivered = <<>> /\ dropped = {} /\ taken = 0

\* What no step of the connection changes.
ConnFrame == UNCHANGED <<mode, serverVars, fecConfig, codecVars, pumpVars, demuxVars, exitVars,
                         lockVars, calcVars>>

\* A send on a closed channel has panicked: the process is gone.
Panicked == forwarder.pc = "panicked" \/ writer.pc = "panicked"

\* The closed flag never seen as set.
ClosedCheck_Never(c) == FALSE

\* m.mu.RLock(); if m.closed {...}; m.mu.RUnlock() at the head of ReadPacket and WritePacket.
ClosedCheck(c) == c.closed

\* WritePacket up to the copy of the packet: the closed check.
WritePacket_Check(packet) ==
  /\ mode = "conn" /\ ConnFrame /\ ~Panicked
  /\ writer.pc = "idle"
  /\ Len(accepted) < MaxWrites
  /\ IF ClosedCheck(masqueConn)
     THEN /\ ret' = [op |-> "WritePacket", n |-> 0, err |-> "connection is closed"]
          /\ UNCHANGED writer
     ELSE /\ writer' = [pc |-> "send", packet |-> copy(Len(packet), packet)]
          /\ UNCHANGED ret
  /\ UNCHANGED <<masqueConn, forwarder, reader, accepted, delivered, dropped, taken>>

\* WritePacket's select: the send on writeChan, or the timeout while it is full.
WritePacket_Send ==
  /\ mode = "conn" /\ ConnFrame /\ ~Panicked
  /\ writer.pc = "send"
  /\ IF masqueConn.closed
     THEN /\ writer' = [writer EXCEPT !.pc = "panicked"]
          /\ UNCHANGED <<masqueConn, ret, accepted>>
     ELSE IF Len(masqueConn.writeChan) < ChanCap
     THEN /\ masqueConn' = [masqueConn EXCEPT !.writeChan = Append(@, writer.packet)]
          /\ accepted' = Append(accepted, writer.packet)
          /\ ret' = [op |-> "WritePacket", n |-> 0, err |-> "nil"]
          /\ writer' = [pc |-> "idle", packet |-> <<>>]
     ELSE /\ ret' = [op |-> "WritePacket", n |-> 0, err |-> "write timeout"]
          /\ writer' = [pc |-> "idle", packet |-> <<>>]
          /\ UNCHANGED <<masqueConn, accepted>>
  /\ UNCHANGED <<forwarder, reader, delivered, dropped, taken>>

\* ReadPacket up to its select: the closed check.
ReadPacket_Check ==
  /\ mode = "conn" /\ ConnFrame /\ ~Panicked
  /\ reader.pc = "idle"
  /\ IF ClosedCheck(masqueConn)
     THEN /\ ret' = [op |-> "ReadPacket", n |-> 0, err |-> "io.EOF"]
          /\ UNCHANGED reader
     ELSE /\ reader' = [pc |-> "recv"]
          /\ UNCHANGED ret
  /\ UNCHANGED <<masqueConn, forwarder, writer, accepted, delivered, dropped, taken>>

\* ReadPacket's select: a packet of readChan copied into the buffer, the zero value
\* of a closed and empty channel, or the timeout.
ReadPacket_Recv ==
  /\ mode = "conn" /\ ConnFrame /\ ~Panicked
  /\ reader.pc = "recv"
  /\ reader' = [pc |-> "idle"]
  /\ IF masqueConn.readChan # <<>>
     THEN LET got == copy(BufLen, Head(masqueConn.readChan))
          IN  /\ masqueConn' = [masqueConn EXCEPT !.readChan = Tail(@)]
              /\ delivered' = Append(delivered, got)
              /\ ret' = [op |-> "ReadPacket", n |-> Len(got), err |-> "nil"]
     ELSE /\ ret' = [op |-> "ReadPacket", n |-> 0,
                     err |-> IF masqueConn.closed THEN "nil" ELSE "read timeout"]
          /\ UNCHANGED <<masqueConn, delivered>>
  /\ UNCHANGED <<forwarder, writer, accepted, dropped, taken>>

\* MASQUEConn.Close: nothing when already closed; otherwise the flag is set and both
\* channels are closed (Stream is nil).
Close ==
  /\ mode = "conn" /\ ConnFrame /\ ~Panicked
  /\ masqueConn' = [masqueConn EXCEPT !.closed = TRUE]
  /\ ret' = [op |-> "Close", n |-> 0, err |-> "nil"]
  /\ UNCHANGED <<forwarder, writer, reader, accepted, delivered, dropped, taken>>

\* The select of the linking goroutine when the channel is full: the oldest packet
\* makes room.
selectSend_DropOldest(ch, packet) ==
  IF Len(ch) < ChanCap
  THEN [chan |-> Append(ch, packet), sent |-> TRUE]
  ELSE [chan |-> Append(Tail(ch), packet), sent |-> FALSE]

\* select { case readChan <- packet: default: }: sent if there is room, skipped if not.
selectSend(ch, packet) ==
  IF Len(ch) < ChanCap
  THEN [chan |-> Append(ch, packet), sent |-> TRUE]
  ELSE [chan |-> ch, sent |-> FALSE]

\* The linking goroutine: for packet := range writeChan.
Forwarder_Recv ==
  /\ mode = "conn" /\ ConnFrame /\ ~Panicked
  /\ forwarder.pc = "recv"
  /\ IF masqueConn.writeChan # <<>>
     THEN /\ forwarder' = [pc |-> "send", has |-> TRUE, packet |-> Head(masqueConn.writeChan)]
          /\ masqueConn' = [masqueConn EXCEPT !.writeChan = Tail(@)]
          /\ taken' = taken + 1
     ELSE /\ masqueConn.closed
          /\ forwarder' = [forwarder EXCEPT !.pc = "ended"]
          /\ UNCHANGED <<masqueConn, taken>>
  /\ UNCHANGED <<writer, reader, ret, accepted, delivered, dropped>>

\* The linking goroutine: the select that sends to readChan; on a closed readChan the
\* send panics.
Forwarder_Send ==
  /\ mode = "conn" /\ ConnFrame /\ ~Panicked
  /\ forwarder.pc = "send"
  /\ IF masqueConn.closed
     THEN /\ forwarder' = [forwarder EXCEPT !.pc = "panicked"]
          /\ UNCHANGED <<masqueConn, dropped>>
     ELSE LET out == selectSend(masqueConn.readChan, forwarder.packet)
          IN  /\ masqueConn' = [masqueConn EXCEPT !.readChan = out.chan]
              /\ dropped' = IF out.sent THEN dropped ELSE dropped \cup {taken}
              /\ forwarder' = [pc |-> "recv", has |-> FALSE, packet |-> <<>>]
  /\ UNCHANGED <<writer, reader, ret, accepted, delivered, taken>>

NextConn ==
  \/ \E packet \in ConnPackets : WritePacket_Check(packet)
  \/ WritePacket_Send
  \/ ReadPacket_Check
  \/ ReadPacket_Recv
  \/ Close
  \/ Forwarder_Recv
  \/ Forwarder_Send

SpecConn == InitConn /\ [][NextConn]_vars

\* C29: after Close has returned, every ReadPacket returns (0, io.EOF), every
\* WritePacket returns an error, and every further Close returns nil; none of these
\* calls changes the connection, its channels or what was delivered.
C29_AfterClose ==
  [][(mode = "conn" /\ masqueConn.closed) =>
       /\ ReadPacket_Check => ret' = [op |-> "ReadPacket", n |-> 0, err |-> "io.EOF"]
       /\ \A packet \in ConnPackets :
            WritePacket_Check(packet) => ret'.op = "WritePacket" /\ ret'.err # "nil"
       /\ Close => ret' = [op |-> "Close", n |-> 0, err |-> "nil"]
       /\ (ReadPacket_Check \/ Close \/ \E packet \in ConnPackets : WritePacket_Check(packet)) =>
            /\ masqueConn' = masqueConn
            /\ accepted' = accepted /\ delivered' = delivered
            /\ writer' = writer /\ reader' = reader]_vars

\* The connection was closed while a packet sat undelivered in readChan, and a
\* ReadPacket called afterwards has returned (0, io.EOF).
C29_Witness ==
  /\ mode = "conn"
  /\ masqueConn.closed
  /\ masqueConn.readChan # <<>>
  /\ delivered # <<>>
  /\ ret = [op |-> "ReadPacket", n |-> 0, err |-> "io.EOF"]

\* The accepted packets up to the k-th that the linking goroutine did not drop.
RECURSIVE KeptUpTo(_)
KeptUpTo(k) ==
  IF k = 0 THEN <<>>
  ELSE KeptUpTo(k - 1) \o (IF k \in dropped THEN <<>> ELSE <<accepted[k]>>)

\* Where every accepted packet is: delivered or waiting in readChan (those the
\* goroutine passed on), in the goroutine's hand, or waiting in writeChan, in write order.
InOrder ==
  LET inHand == IF forwarder.has THEN 1 ELSE 0
  IN  /\ KeptUpTo(taken - inHand) = delivered \o masqueConn.readChan
      /\ forwarder.has => forwarder.packet = accepted[taken]
      /\ SubSeq(accepted, taken + 1, Len(accepted)) = masqueConn.writeChan
      /\ dropped \subseteq 1..(taken - inHand)

\* C30: on the channel-backed connection of the server the packets ReadPacket returns
\* are the packets WritePacket accepted, byte for byte and in write order, less the
\* dropped ones; a packet is dropped only when readChan is full, silently (no call
\* returns an error for it), and the packets written after it still arrive in order.
C30_OrderedDelivery ==
  [][mode = "conn" =>
       /\ InOrder'
       /\ dropped' # dropped =>
            /\ Len(masqueConn.readChan) = ChanCap
            /\ ret' = ret /\ accepted' = accepted /\ delivered' = delivered
       /\ delivered' # delivered =>
            delivered' = Append(delivered, Head(masqueConn.readChan))]_vars

\* A packet was dropped on a full readChan and a packet written after it has been
\* returned by ReadPacket.
C30_Witness ==
  /\ mode = "conn"
  /\ \E d \in dropped :
       /\ d < Len(accepted)
       /\ Len(delivered) > d - Cardinality({x \in dropped : x <= d})
  /\ ret.op = "ReadPacket" /\ ret.err = "nil"

(***************************************************************************)
(* Config.CalculateRedundancyPackets on its own: every redundancy_percent  *)
(* of 0..100, valid or not as a whole configuration, and every count of    *)
(* data packets up to MaxDataPackets.                                      *)
(***************************************************************************)

\* The largest count of data packets handed to CalculateRedundancyPackets.
MaxDataPackets == 12

\* The block sizes of the configurations of this part; the function never reads BlockSize.
CalcBlockSizes == {1, 10}

\* The configurations: every redundancy_percent that Validate accepts.
CalcConfigs == {c \in [BlockSize : CalcBlockSizes, RedundancyPercent : 0..100] : Validate(c)}

InitCalc ==
  /\ mode = "calc"
  /\ build = "vpn"
  /\ IPPool = New([addr |-> ip4(10, 0, 0, 0), bits |-> 30])
  /\ InitServerState
  /\ poolRet = [ok |-> TRUE, ip |-> <<>>]
  /\ fecConfig \in CalcConfigs
  /\ dataPackets \in 0..MaxDataPackets
  /\ redundancy = -1
  /\ lastErr = <<>> /\ strategy = ""
  /\ decodeIn = <<>> /\ decodeOut = <<>>
  /\ IdleCodec /\ IdlePump /\ IdleDemux /\ IdleExit /\ IdleLock /\ IdleConn

\* config.CalculateRedundancyPackets(dataPackets).
Calculate ==
  /\ mode = "calc" /\ redundancy = -1
  /\ redundancy' = CalculateRedundancyPackets(fecConfig, dataPackets)
  /\ UNCHANGED <<mode, serverVars, fecConfig, codecVars, pumpVars, demuxVars, exitVars,
                 lockVars, connVars, dataPackets, lastErr, strategy, decodeIn, decodeOut>>

NextCalc == Calculate

SpecCalc == InitCalc /\ [][NextCalc]_vars

Max(a, b) == IF a > b THEN a ELSE b

\* C31: the value CalculateRedundancyPackets returned for n data packets is 0 when
\* redundancy_percent is 0 and otherwise the larger of 1 and floor(n * percent / 100):
\* the largest k with 100 * k <= n * percent, or 1 when that k is 0.
C31_RedundancyCount ==
  (mode = "calc" /\ redundancy # -1) =>
     LET pct == fecConfig.RedundancyPercent
         n   == dataPackets
     IN  IF pct = 0 THEN redundancy = 0
         ELSE \E k \in 0..n :
                /\ 100 * k <= n * pct /\ n * pct < 100 * (k + 1)
                /\ redundancy = Max(1, k)

\* C31 witness: a call with redundancy on whose percentage of the count is below one
\* packet (3 packets at 10 percent) has returned one redundancy packet.
C31_Witness ==
  /\ mode = "calc" /\ dataPackets = 3 /\ fecConfig.RedundancyPercent = 10 /\ redundancy = 1

(***************************************************************************)
(* GetRecoveryStrategy.  An error is its Unwrap chain, outermost first:    *)
(* *VPNError values (Unwrap gives Cause), net.Error values such as         *)
(* *net.OpError (Unwrap gives Err), fmt.Errorf("%w") wrappers, and at the  *)
(* end of the chain possibly one of the package's sentinel errors or an    *)
(* errors.New value.  The nil error is the empty chain.                    *)
(***************************************************************************)

\* The longest Unwrap chain explored.
MaxChain == 2

ConnectionSentinels == {"ErrConnectionFailed", "ErrConnectionTimeout", "ErrConnectionLost"}
ConfigurationSentinels == {"ErrInvalidConfig", "ErrMissingConfig", "ErrInvalidCertificate"}
NetworkSentinels == {"ErrTUNDeviceCreation", "ErrRouteAddition", "ErrIPAllocation",
                     "ErrNetworkUnreachable"}
ProtocolSentinels == {"ErrMASQUEProtocol", "ErrQUICProtocol", "ErrHTTP3Protocol"}
SystemSentinels == {"ErrPermissionDenied", "ErrResourceExhausted", "ErrSystemCall"}

\* Every sentinel of the var block; ErrAuthenticationFailed is in no classification.
SentinelErrors ==
  ConnectionSentinels \cup {"ErrAuthenticationFailed"} \cup ConfigurationSentinels
    \cup NetworkSentinels \cup ProtocolSentinels \cup SystemSentinels

\* VPNError.Type: the five the classifications test and one they do not.
VPNErrorTypes == {"connection", "configuration", "network", "protocol", "system", "tunnel"}

ErrNode(kind, tag, timeout, temporary) ==
  [kind |-> kind, tag |-> tag, timeout |-> timeout, temporary |-> temporary]

\* The values that can stand in a chain.
VPNErrors == {ErrNode("VPNError", t, FALSE, FALSE) : t \in VPNErrorTypes}
NetErrors == {ErrNode("net.Error", "", to, tmp) : to \in BOOLEAN, tmp \in BOOLEAN}
Wrappers  == VPNErrors \cup NetErrors \cup {ErrNode("fmt.Errorf", "", FALSE, FALSE)}
Leaves    == VPNErrors \cup NetErrors \cup {ErrNode("errors.New", "unknown", FALSE, FALSE)}
               \cup {ErrNode("sentinel", n, FALSE, FALSE) : n \in SentinelErrors}

\* The chains of exactly n values: wrappers, then one value that wraps nothing.
RECURSIVE ChainsOf(_)
ChainsOf(n) ==
  IF n = 0 THEN {<<>>}
  ELSE IF n = 1 THEN {<<l>> : l \in Leaves}
  ELSE {<<w>> \o c : w \in Wrappers, c \in ChainsOf(n - 1)}

\* The errors explored: every chain of up to maxChain values.
Errors(maxChain) == UNION {ChainsOf(n) : n \in 0..maxChain}

\* errors.As(err, &target): the first value of the chain of the target's type.
As(e, kind) ==
  LET hits == SelectSeq(e, LAMBDA x : x.kind = kind)
  IN  IF Len(hits) = 0 THEN ErrNode("none", "", FALSE, FALSE) ELSE hits[1]

\* errors.Is(err, sentinel) for one of a set of sentinels.
Is(e, sentinels) == \E i \in 1..Len(e) : e[i].kind = "sentinel" /\ e[i].tag \in sentinels

\* The classifications that start with errors.As(err, &vpnErr) on VPNError.Type.
ByTypeOrSentinel(e, type, sentinels) ==
  IF As(e, "VPNError").kind = "VPNError" THEN As(e, "VPNError").tag = type
  ELSE Is(e, sentinels)

IsConnectionError(e) ==
  IF As(e, "VPNError").kind = "VPNError" THEN As(e, "VPNError").tag = "connection"
  ELSE IF As(e, "net.Error").kind = "net.Error"
       THEN As(e, "net.Error").timeout \/ ~As(e, "net.Error").temporary
  ELSE Is(e, ConnectionSentinels)

IsConfigurationError(e) == ByTypeOrSentinel(e, "configuration", ConfigurationSentinels)
IsNetworkError(e) == ByTypeOrSentinel(e, "network", NetworkSentinels)
IsProtocolError(e) == ByTypeOrSentinel(e, "protocol", ProtocolSentinels)
IsSystemError(e) == ByTypeOrSentinel(e, "system", SystemSentinels)

\* GetRecoveryStrategy with the network test before the connection test.
GetRecoveryStrategy_NetworkFirst(e) ==
  IF IsNetworkError(e) THEN "RecoveryRetry"
  ELSE IF IsConnectionError(e) THEN "RecoveryReconnect"
  ELSE IF IsProtocolError(e) THEN "RecoveryReconnect"
  ELSE IF IsConfigurationError(e) THEN "RecoveryNone"
  ELSE IF IsSystemError(e) THEN "RecoveryRestart"
  ELSE "RecoveryRetry"

GetRecoveryStrategy(e) ==
  IF IsConnectionError(e) THEN "RecoveryReconnect"
  ELSE IF IsNetworkError(e) THEN "RecoveryRetry"
  ELSE IF IsProtocolError(e) THEN "RecoveryReconnect"
  ELSE IF IsConfigurationError(e) THEN "RecoveryNone"
  ELSE IF IsSystemError(e) THEN "RecoveryRestart"
  ELSE "RecoveryRetry"

InitRecovery ==
  /\ mode = "recovery"
  /\ build = "vpn"
  /\ IPPool = New([addr |-> ip4(10, 0, 0, 0), bits |-> 30])
  /\ InitServerState
  /\ poolRet = [ok |-> TRUE, ip |-> <<>>]
  /\ fecConfig = ScenarioConfig
  /\ dataPackets = 0 /\ redundancy = -1
  /\ lastErr \in Errors(MaxChain)
  /\ strategy = ""
  /\ decodeIn = <<>> /\ decodeOut = <<>>
  /\ IdleCodec /\ IdlePump /\ IdleDemux /\ IdleExit /\ IdleLock /\ IdleConn

\* strategy := GetRecoveryStrategy(lastErr).
Recover ==
  /\ mode = "recovery" /\ strategy = ""
  /\ strategy' = GetRecoveryStrategy(lastErr)
  /\ UNCHANGED <<mode, serverVars, fecConfig, codecVars, pumpVars, demuxVars, exitVars,
                 lockVars, connVars, dataPackets, redundancy, lastErr, decodeIn, decodeOut>>

NextRecovery == Recover

SpecRecovery == InitRecovery /\ [][NextRecovery]_vars

\* The kinds an error is of, in the order GetRecoveryStrategy asks for them.
KindOrder == <<"connection", "network", "protocol", "configuration", "system">>

IsKind(e, kind) ==
  CASE kind = "connection"    -> IsConnectionError(e)
    [] kind = "network"       -> IsNetworkError(e)
    [] kind = "protocol"      -> IsProtocolError(e)
    [] kind = "configuration" -> IsConfigurationError(e)
    [] kind = "system"        -> IsSystemError(e)

StrategyFor ==
  [connection |-> "RecoveryReconnect", network |-> "RecoveryRetry",
   protocol |-> "RecoveryReconnect", configuration |-> "RecoveryNone",
   system |-> "RecoveryRestart"]

\* C32: the strategy returned for an error is the one of the first kind, in the order
\* connection, network, protocol, configuration, system, that the error is of
\* (Reconnect, Retry, Reconnect, None, Restart), and Retry when it is of no kind.
C32_RecoveryStrategy ==
  (mode = "recovery" /\ strategy # "") =>
     LET matching == {i \in 1..Len(KindOrder) : IsKind(lastErr, KindOrder[i])}
     IN  IF matching = {} THEN strategy = "RecoveryRetry"
         ELSE \E i \in matching :
                /\ \A j \in matching : i <= j
                /\ strategy = StrategyFor[KindOrder[i]]

\* C32 witness: an error of two kinds, a timed-out net.Error around ErrRouteAddition
\* (connection and network), got the strategy of the first, Reconnect.
C32_Witness ==
  /\ mode = "recovery" /\ strategy = "RecoveryReconnect"
  /\ IsConnectionError(lastErr) /\ IsNetworkError(lastErr)

(***************************************************************************)
(* Block alignment of the two pumps.                                       *)
(***************************************************************************)

\* The sequence numbers of the data packets among the frames written for the packet
\* buffers of lengths lens[k..], the first frame having sequence number seq and the
\* buffers holding the packets read from position from + 1 on.
RECURSIVE DataSeqs(_, _, _, _)
DataSeqs(lens, k, seq, from) ==
  IF k > Len(lens) THEN {}
  ELSE LET sentFrames == Len(Encode(fecConfig, SubSeq(tunRead, from + 1, from + lens[k])))
       IN  (seq..(seq + lens[k] - 1)) \cup DataSeqs(lens, k + 1, seq + sentFrames, from + lens[k])

\* C33: for every frame in the tunnel, the receiver's index seq mod total_block_size is
\* below block_size exactly when the frame carries a data packet, whatever blocks, full
\* or flushed partial, the sender has encoded.
C33_BlockAlignment ==
  mode = "pump" =>
    \A k \in 1..Len(tunnel) :
       LET seq == Uint32(tunnel[k])
       IN  (seq % TotalBlockSize(fecConfig) < fecConfig.BlockSize)
             <=> (seq \in DataSeqs(blocks, 1, 0, 0))

\* C34: with a tunnel that only drops frames, every packet the receiver has written to its
\* TUN, directly or through block recovery, is one of the IP packets the sender read from
\* its TUN, and no sent packet (they are pairwise different) is written twice.
C34_WritesAreSentPackets ==
  mode = "pump" =>
    /\ \A k \in 1..Len(tunOut) : tunOut[k].pkt \in Range(tunRead)
    /\ \A k, l \in 1..Len(tunOut) : tunOut[k].pkt = tunOut[l].pkt => k = l

\* The packets written to the tunnel of session s: each frame as it is (metrics.go
\* writes the packets unframed) and without the four bytes of its sequence number.
TunnelPayloads(s) ==
  {connOut[s][k] : k \in 1..Len(connOut[s])}
    \cup {SubSeq(connOut[s][k], 5, Len(connOut[s][k])) : k \in 1..Len(connOut[s])}

\* C35: with FEC enabled, once the server's TUN has nothing more to deliver (no further
\* packet will arrive for any session), every packet the demultiplexer accepted for a
\* session has been written to that session's tunnel.
C35_AcceptedEventuallyWritten ==
  (mode = "demux" /\ FecEnabled /\ serverTun = <<>>) =>
     \A s \in Sessions : \A k \in 1..Len(handed[s]) : handed[s][k] \in TunnelPayloads(s)

\* A session whose handler has not begun to tear it down and whose tunnel is open.
Live(s) == sess[s].pc \in {"assign", "advertise", "store", "pump"} /\ ~sess[s].closed

\* C36: in every reachable server state no two live sessions have the same address, and
\* no address of the pool's free list is a key of IPConnMap or a value of ClientIPMap.
C36_UniqueAddresses ==
  mode = "server" =>
    /\ \A s, t \in Sessions : (Live(s) /\ Live(t) /\ sess[s].addr = sess[t].addr) => s = t
    /\ \A a \in Range(IPPool.available) :
         /\ a \notin DOMAIN IPConnMap
         /\ \A c \in DOMAIN ClientIPMap : ClientIPMap[c] # a

\* C37: whatever the interleaving of Close with a WritePacket, a ReadPacket and the
\* forwarding goroutine, no send on a closed channel happens: nothing panics.
C37_NoSendOnClosed ==
  mode = "conn" => ~Panicked

\* The writes a step appends to the receiver's TUN that come from block recovery.
RecoveredNow ==
  SelectSeq(SubSeq(tunOut', Len(tunOut) + 1, Len(tunOut')), LAMBDA w : w.via = "recovered")

\* C38: when the receiving pump takes a frame whose block id differs from the current
\* one, recovery runs once on the block held so far (its writes are those of
\* recoverAndWriteBlock on that block, with at most one Decode call) unless the current
\* id is the initial sentinel, and afterwards the block state holds the new packet and
\* nothing else; a frame of the current block adds its packet and triggers no recovery.
C38_BlockSwitch ==
  [][(mode = "pump" /\ Len(tunnel') < Len(tunnel) /\ Len(Head(tunnel)) >= 4) =>
       LET seq          == Uint32(Head(tunnel))
           payload      == SubSeq(Head(tunnel), 5, Len(Head(tunnel)))
           blockID      == seq \div TotalBlockSize(fecConfig)
           indexInBlock == seq % TotalBlockSize(fecConfig)
           previous     == recoverAndWriteBlock(fecConfig, blockBuffer, receivedIndices,
                                                currentBlockID)
       IN  /\ currentBlockID' = blockID
           /\ IF blockID # currentBlockID
              THEN /\ IF currentBlockID # InvalidBlockID
                      THEN /\ RecoveredNow = previous.writes
                           /\ decodeCalls' = decodeCalls + previous.decodes
                           /\ previous.decodes <= 1
                           /\ \A k \in 1..Len(RecoveredNow) :
                                RecoveredNow[k].block = currentBlockID
                      ELSE RecoveredNow = <<>> /\ decodeCalls' = decodeCalls
                   /\ \A i \in 1..Len(blockBuffer') :
                        blockBuffer'[i] = IF i = indexInBlock + 1 THEN payload ELSE Nil
                   /\ receivedIndices' = <<indexInBlock>>
              ELSE /\ RecoveredNow = <<>> /\ decodeCalls' = decodeCalls
                   /\ blockBuffer' = [blockBuffer EXCEPT ![indexInBlock + 1] = payload]
                   /\ receivedIndices' = Append(receivedIndices, indexInBlock)]_vars

\* C38 witness: the first frame of block 1 has arrived after a block 0 with a loss:
\* recovery ran once and wrote a packet of block 0, and the block state holds only the
\* new frame.
C38_Witness ==
  /\ mode = "pump" /\ currentBlockID = 1 /\ decodeCalls = 1
  /\ Len(receivedIndices) = 1
  /\ \E k \in 1..Len(tunOut) : tunOut[k].via = "recovered" /\ tunOut[k].block = 0
  /\ \A i \in 1..Len(blockBuffer) : blockBuffer[i] # Nil => i = receivedIndices[1] + 1

\* Session s's handler takes its failure branch in this step.
FailsNow(s) == sess[s].pc \in {"assign", "advertise"} /\ sess'[s].pc = "failed"

\* C39: when AssignAddresses or AdvertiseRoute fails for session s, the step frees the
\* session's address, leaves no map entry for it, closes the tunnel without the pump ever
\* having run, and undoes nothing but this request: every entry of the two maps that
\* belongs to another address is still there afterwards.
C39_FailureUndoesRequest ==
  [][\A s \in Sessions :
       (mode = "server" /\ FailsNow(s)) =>
          LET a == sess[s].addr
          IN  /\ a \in Range(IPPool'.available) /\ a \notin DOMAIN IPPool'.allocated
              /\ a \notin DOMAIN IPConnMap'
              /\ \A c \in DOMAIN ClientIPMap' : ClientIPMap'[c] # a
              /\ sess'[s].closed /\ running'[s] = 0
              /\ \A c \in DOMAIN ClientIPMap :
                   ClientIPMap[c] # a => (c \in DOMAIN ClientIPMap' /\ ClientIPMap'[c] = ClientIPMap[c])
              /\ \A b \in DOMAIN IPConnMap :
                   b # a => (b \in DOMAIN IPConnMap' /\ IPConnMap'[b] = IPConnMap[b])]_vars

(***************************************************************************)
(* XORDecoder.Decode on arbitrary input.  A Go index or slice expression   *)
(* out of range panics; the operators below follow Decode and say whether  *)
(* one of its index expressions is out of range.                           *)
(***************************************************************************)

\* The longest packet list and the longest list of lost indices handed to Decode.
MaxDecodeLen == 3
MaxLost == 2

\* The entries of the packet lists: nil, an empty packet, a data packet, redundancy
\* packets with a right header (one packet of length 1; two of lengths 1 and 2), with a
\* header cut short (two packets announced, one length given), with a length larger
\* than the data (3 announced, 1 byte there), and with no packet announced.
DecodePackets ==
  {Nil, <<>>, <<5>>, <<1, 0, 1, 7>>, <<2, 0, 1, 0, 2, 9, 9>>, <<2, 0, 1>>, <<1, 0, 3, 7>>, <<0>>}

\* The block sizes of the decoders explored.
DecodeConfigs == {[BlockSize |-> 1, RedundancyPercent |-> 100],
                  [BlockSize |-> 2, RedundancyPercent |-> 50]}

RECURSIVE SeqsOf(_, _)
SeqsOf(S, n) == IF n = 0 THEN {<<>>} ELSE {Append(q, x) : q \in SeqsOf(S, n - 1), x \in S}

\* The lists of k lost indices out of 0..n, in ascending order, repeats included.
RECURSIVE LostLists(_, _)
LostLists(n, k) ==
  IF k = 0 THEN {<<>>}
  ELSE {Append(q, x) : q \in LostLists(n, k - 1), x \in 0..n}

Ascending(l) == \A i \in 1..(Len(l) - 1) : l[i] <= l[i + 1]

\* The calls explored: every packet list of up to maxLen entries with every ascending
\* list of up to maxLost indices of 0..len(packets), the last one being out of range.
DecodeInputs(maxLen, maxLost) ==
  UNION {{[packets |-> p, lost |-> l] :
            p \in SeqsOf(DecodePackets, n),
            l \in {q \in UNION {LostLists(n, k) : k \in 0..maxLost} : Ascending(q)}} :
         n \in 0..maxLen}

\* A Go index expression s[i] is in range.
InRange(i, length) == i >= 0 /\ i < length

\* Decode without its test that the redundancy packet holds its whole header.
HeaderCovers_Unchecked(redundancyPacket, headerSize) == TRUE

\* if len(redundancyPacket) < headerSize { continue }
HeaderCovers(redundancyPacket, headerSize) == Len(redundancyPacket) >= headerSize

\* Whether the body of Decode's loop panics for a block whose only lost index is lostIdx.
DecodeBlockPanics(config, packets, lostIdx) ==
  LET blockIdx       == lostIdx \div config.BlockSize
      blockStart     == blockIdx * config.BlockSize
      blockEnd       == Min(blockStart + config.BlockSize, Len(packets))
      numDataPackets == Len(packets) - (Len(packets) \div (config.BlockSize + 1))
      redundancyIdx  == numDataPackets + blockIdx
  IN  IF redundancyIdx >= Len(packets) THEN FALSE
      ELSE IF ~InRange(redundancyIdx, Len(packets)) THEN TRUE
      ELSE LET redundancyPacket == packets[redundancyIdx + 1]
           IN  IF redundancyPacket = Nil \/ Len(redundancyPacket) < 1 THEN FALSE
               ELSE LET numPacketsInBlock      == redundancyPacket[1]
                        headerSize             == 1 + numPacketsInBlock * 2
                        lostPacketIndexInBlock == lostIdx - blockStart
                        offset                 == 1 + lostPacketIndexInBlock * 2
                    IN  IF ~HeaderCovers(redundancyPacket, headerSize) THEN FALSE
                        ELSE IF lostPacketIndexInBlock >= numPacketsInBlock THEN FALSE
                        ELSE IF ~InRange(offset, Len(redundancyPacket))
                                \/ ~InRange(offset + 1, Len(redundancyPacket)) THEN TRUE
                        ELSE IF \E i \in blockStart..(blockEnd - 1) :
                                   i # lostIdx /\ i < Len(packets) /\ ~InRange(i, Len(packets))
                             THEN TRUE
                        ELSE IF Len(redundancyPacket) < headerSize THEN FALSE
                        ELSE LET originalLen == redundancyPacket[offset + 1] * 256
                                                  + redundancyPacket[offset + 2]
                                 maxSize     == MaxLenFrom(AvailablePackets(packets, blockStart,
                                                                            blockEnd, lostIdx),
                                                           1, originalLen)
                             IN  \/ originalLen > maxSize
                                 \/ ~InRange(lostIdx, Len(packets))

\* Whether Decode panics: some block with exactly one lost index does.
DecodePanics(config, packets, lostIndices) ==
  /\ Len(lostIndices) > 0
  /\ \E k \in 1..Len(lostIndices) :
       /\ LostByBlock(config, lostIndices, lostIndices[k] \div config.BlockSize)
            = <<lostIndices[k]>>
       /\ DecodeBlockPanics(config, packets, lostIndices[k])

NotCalled == [called |-> FALSE, panicked |-> FALSE, err |-> "nil", recovered |-> <<>>]

InitDecode ==
  /\ mode = "decode"
  /\ build = "vpn"
  /\ IPPool = New([addr |-> ip4(10, 0, 0, 0), bits |-> 30])
  /\ InitServerState
  /\ poolRet = [ok |-> TRUE, ip |-> <<>>]
  /\ fecConfig \in {c \in DecodeConfigs : Validate(c)}
  /\ dataPackets = 0 /\ redundancy = -1 /\ lastErr = <<>> /\ strategy = ""
  /\ decodeIn \in DecodeInputs(MaxDecodeLen, MaxLost)
  /\ decodeOut = NotCalled
  /\ IdleCodec /\ IdlePump /\ IdleDemux /\ IdleExit /\ IdleLock /\ IdleConn

\* recovered, err := decoder.Decode(packets, lost).
DecodeCall ==
  /\ mode = "decode" /\ ~decodeOut.called
  /\ decodeOut' =
       IF DecodePanics(fecConfig, decodeIn.packets, decodeIn.lost)
       THEN [called |-> TRUE, panicked |-> TRUE, err |-> "nil", recovered |-> <<>>]
       ELSE [called |-> TRUE, panicked |-> FALSE, err |-> "nil",
             recovered |-> Decode(fecConfig, decodeIn.packets, decodeIn.lost)]
  /\ UNCHANGED <<mode, serverVars, fecConfig, codecVars, pumpVars, demuxVars, exitVars,
                 lockVars, connVars, dataPackets, redundancy, lastErr, strategy, decodeIn>>

NextDecode == DecodeCall

SpecDecode == InitDecode /\ [][NextDecode]_vars

\* The redundancy packet Decode looks up for the block of lost index lostIdx, Nil if none.
RedundancyFor(config, packets, lostIdx) ==
  LET idx == Len(packets) - (Len(packets) \div (config.BlockSize + 1))
               + lostIdx \div config.BlockSize
  IN  IF idx < Len(packets) THEN packets[idx + 1] ELSE Nil

====
